---- MODULE Spec2Model ----
(***************************************************************************)
(* mergneh: the running-text engine of src/src/running_text.rs.            *)
(*                                                                         *)
(* A Rust String is modelled as the sequence of its UTF-8 bytes.  A byte   *)
(* is a TLA+ string: "a", "b", "x", "y" are one-byte characters and the    *)
(* pair "c3","a9" is the two-byte character U+00E9.  Offsets are byte      *)
(* offsets counted from 0 as in the source, so the byte at offset i of s   *)
(* is s[i+1].  A BTreeMap<usize, usize> is a function whose domain is its  *)
(* key set.                                                                *)
(***************************************************************************)
EXTENDS Integers, Sequences, FiniteSets, TLC

\* ------------------------------------------------------------------ bounds
\* longest content, in characters
MaxLen == 3
\* largest window width
MaxWidth == 3
\* calls of next()/next_back() followed on one iterator in one direction
MaxSteps == 6

\* ------------------------------------------------------- str (std) helpers
IsCont(b) == b = "a9"

is_char_boundary(s, i) ==
    \/ i = 0
    \/ i = Len(s)
    \/ (i > 0 /\ i < Len(s) /\ ~IsCont(s[i + 1]))

\* string.chars().count()
chars_count(s) == Cardinality({i \in 1..Len(s) : ~IsCont(s[i])})

\* c.len_utf8() of the character that starts at offset i
len_utf8(s, i) == IF s[i + 1] = "c3" THEN 2 ELSE 1

\* c.len_utf8() of the character that ends at offset i
len_utf8_back(s, i) == IF IsCont(s[i]) THEN 2 ELSE 1

\* s.floor_char_boundary(idx)
RECURSIVE floor_char_boundary(_, _)
floor_char_boundary(s, idx) ==
    IF idx >= Len(s) THEN Len(s)
    ELSE IF is_char_boundary(s, idx) THEN idx
    ELSE floor_char_boundary(s, idx - 1)

RECURSIVE char_boundaries_from(_, _)
char_boundaries_from(s, i) ==
    IF i > Len(s) THEN <<>>
    ELSE IF is_char_boundary(s, i) THEN <<i>> \o char_boundaries_from(s, i + 1)
    ELSE char_boundaries_from(s, i + 1)

RECURSIVE match_from(_, _, _)
match_from(s, pat, i) ==
    IF i + Len(pat) > Len(s) THEN <<>>
    ELSE IF SubSeq(s, i + 1, i + Len(pat)) = pat
         THEN <<i>> \o match_from(s, pat, i + Len(pat))
         ELSE match_from(s, pat, i + 1)

\* s.match_indices(pat): the offsets of the non-overlapping matches, left to
\* right; the empty pattern matches at every character boundary.
match_indices(s, pat) ==
    IF pat = <<>> THEN char_boundaries_from(s, 0) ELSE match_from(s, pat, 0)

\* string.replace_range(i..i + n, dest)
replace_range(s, i, n, dest) ==
    SubSeq(s, 1, i) \o dest \o SubSeq(s, i + n + 1, Len(s))

\* CharIndices::next(): the offset() after consuming one character
ci_next(s, off) == IF off >= Len(s) THEN off ELSE off + len_utf8(s, off)

\* off.by_ref().skip(n - 1).next(): consumes n characters
RECURSIVE ci_skip(_, _, _)
ci_skip(s, off, n) == IF n <= 0 THEN off ELSE ci_skip(s, ci_next(s, off), n - 1)

\* BTreeMap::extend with the entries (k, v) for k in keys; BTreeMap::insert
map_extend(m, keys, v) ==
    [k \in (DOMAIN m) \cup keys |-> IF k \in keys THEN v ELSE m[k]]

Range(f) == {f[i] : i \in DOMAIN f}

\* ------------------------------------------------------ RunningText::new
RECURSIVE shrink_sum(_, _)
\* the sum of src.len() - dest.len() over the rules where it is positive
shrink_sum(escapes, j) ==
    IF j > Len(escapes) THEN 0
    ELSE (IF Len(escapes[j][1]) > Len(escapes[j][2])
          THEN Len(escapes[j][1]) - Len(escapes[j][2]) ELSE 0)
         + shrink_sum(escapes, j + 1)

\* lines 14-18: char_count, where the subtraction does not overflow
char_count(string, escapes) == chars_count(string) - shrink_sum(escapes, 1)

\* Lines 14-20: char_count, repeat, q and r.  usize arithmetic: with
\* overflow checks (debug build) a subtraction below zero panics, without
\* them (release build) it wraps modulo 2^64.  The wrapped values are far
\* above every width and length of the model, so the quotients are written
\* out: with char_count = 2^64 - d and w >= 1, (w-1)/char_count = 0; with
\* w = 0, w - 1 = 2^64 - 1 and the quotient by 2^64 - d is 1, remainder d-1;
\* with w = 0 and an unwrapped char_count > 0 the quotient is at least 2^61
\* and the doubling loop of line 49 cannot complete.
count_qr(string, w, repeat, escapes, overflow_checks) ==
    LET chars == chars_count(string)
        sum == shrink_sum(escapes, 1)
        under == sum > chars
        d == sum - chars
        c == chars - sum
    IN  IF (under \/ w = 0) /\ overflow_checks
            THEN [fail |-> "overflow", repeat |-> repeat, q |-> 0, r |-> 0]
        ELSE IF under /\ w = 0
            THEN [fail |-> "", repeat |-> TRUE, q |-> 1, r |-> d - 1]
        ELSE IF under
            THEN [fail |-> "", repeat |-> TRUE, q |-> 0, r |-> w - 1]
        ELSE IF c = 0
            THEN [fail |-> "div_by_zero", repeat |-> repeat, q |-> 0, r |-> 0]
        ELSE IF w = 0
            THEN [fail |-> "alloc", repeat |-> TRUE, q |-> 0, r |-> 0]
        ELSE [fail |-> "", repeat |-> repeat \/ c > w,
              q |-> (w - 1) \div c, r |-> (w - 1) % c]

\* a mutation of corrected_matches: the offsets are corrected only when the
\* replacement is shorter than the pattern
corrected_matches_shorter_only(string, src, dest) ==
    LET ms == match_indices(string, src)
    IN  [i \in 1..Len(ms) |->
            IF Len(dest) < Len(src)
            THEN ms[i] + (i - 1) * (Len(dest) - Len(src))
            ELSE ms[i]]

\* line 28: the match offsets corrected for the replacements made before
corrected_matches(string, src, dest) ==
    LET ms == match_indices(string, src)
    IN  [i \in 1..Len(ms) |-> ms[i] + (i - 1) * (Len(dest) - Len(src))]

RECURSIVE replace_matches(_, _, _, _, _)
\* lines 31-33
replace_matches(string, matches, i, n, dest) ==
    IF i > Len(matches) THEN string
    ELSE replace_matches(replace_range(string, matches[i], n, dest),
                         matches, i + 1, n, dest)

RECURSIVE apply_escapes(_, _, _, _)
\* lines 24-39: st = [s, left, right]
apply_escapes(st, escapes, j, repeat) ==
    IF j > Len(escapes) THEN st
    ELSE LET src == escapes[j][1]
             dest == escapes[j][2]
             matches == corrected_matches(st.s, src, dest)
             record == repeat /\ dest # <<>>
         IN  apply_escapes(
                 [s |-> replace_matches(st.s, matches, 1, Len(src), dest),
                  left |-> IF record
                           THEN map_extend(st.left, Range(matches), Len(dest))
                           ELSE st.left,
                  right |-> IF record
                            THEN map_extend(st.right,
                                    {m + Len(dest) : m \in Range(matches)},
                                    Len(dest))
                            ELSE st.right],
                 escapes, j + 1, repeat)

RECURSIVE extend_from_within(_, _)
\* lines 49-51: q times string.extend_from_within(..)
extend_from_within(string, q) ==
    IF q <= 0 THEN string ELSE extend_from_within(string \o string, q - 1)

RECURSIVE dest_bounds(_, _, _, _, _)
\* lines 52-57 (shift = 0) and 58-63 (shift = 1): an entry for every
\* occurrence of every non-empty dest in the string
dest_bounds(m, string, escapes, j, shift) ==
    IF j > Len(escapes) THEN m
    ELSE LET d == escapes[j][2]
         IN  dest_bounds(
                 IF d = <<>> THEN m
                 ELSE map_extend(m,
                        {i + shift * Len(d) : i \in Range(match_indices(string, d))},
                        Len(d)),
                 string, escapes, j + 1, shift)

RECURSIVE tail_loop(_, _, _)
\* lines 65-83: st = [off, left, right]
tail_loop(string, st, r) ==
    IF r <= 0 THEN st
    ELSE IF st.off \in DOMAIN st.left
         THEN LET len == st.left[st.off]
              IN  tail_loop(string,
                      [off |-> ci_skip(string, st.off, len),
                       left |-> map_extend(st.left, {st.off + Len(string)}, len),
                       right |-> map_extend(st.right,
                                    {st.off + Len(string) + len}, len)],
                      r - 1)
         ELSE tail_loop(string,
                  [off |-> ci_next(string, st.off),
                   left |-> st.left, right |-> st.right],
                  r - 1)

\* the value of a call that did not return
NoText ==
    [ok |-> FALSE, fail |-> "", s |-> <<>>, w |-> 0, repeat |-> FALSE,
     left_escape_bounds |-> <<>>, right_escape_bounds |-> <<>>]

\* RunningText::new(string, w, repeat, escapes)
new(string, w, repeat, escapes, overflow_checks) ==
    LET qr == count_qr(string, w, repeat, escapes, overflow_checks)
        e == apply_escapes([s |-> string, left |-> <<>>, right |-> <<>>],
                           escapes, 1, qr.repeat)
        copies == extend_from_within(e.s, qr.q)
        left == dest_bounds(e.left, copies, escapes, 1, 0)
        right == dest_bounds(e.right, copies, escapes, 1, 1)
        t == tail_loop(copies, [off |-> 0, left |-> left, right |-> right], qr.r)
    IN  IF qr.fail # "" THEN [NoText EXCEPT !.fail = qr.fail]
        ELSE IF ~qr.repeat
             THEN [ok |-> TRUE, fail |-> "", s |-> e.s, w |-> w, repeat |-> FALSE,
                   left_escape_bounds |-> e.left,
                   right_escape_bounds |-> e.right]
        ELSE [ok |-> TRUE, fail |-> "", s |-> copies \o SubSeq(copies, 1, t.off),
              w |-> w, repeat |-> TRUE,
              left_escape_bounds |-> t.left,
              right_escape_bounds |-> t.right]

\* ------------------------------------------------------------- RunIndex
\* RunIndex::new
RunIndex_new(offset) == [offset |-> offset, end |-> FALSE]

\* The result of RunIndex::next / next_back: item is "Some" (val is the
\* offset returned), "None", or "panic" (the slice &self.s[range] of step is
\* out of range or off a character boundary); idx is the RunIndex afterwards.
\* RunIndex::next with RunIndex::step over self.offset..
RunIndex_next(t, ri) ==
    IF ri.end THEN [item |-> "None", val |-> 0, idx |-> ri]
    ELSE IF ri.offset > Len(t.s) \/ ~is_char_boundary(t.s, ri.offset)
         THEN [item |-> "panic", val |-> 0, idx |-> ri]
    ELSE IF ri.offset = Len(t.s)
         THEN [item |-> "Some", val |-> ri.offset,
               idx |-> [ri EXCEPT !.end = TRUE]]
    ELSE LET step == IF ri.offset \in DOMAIN t.left_escape_bounds
                     THEN t.left_escape_bounds[ri.offset]
                     ELSE len_utf8(t.s, ri.offset)
         IN  [item |-> "Some", val |-> ri.offset,
              idx |-> [ri EXCEPT !.offset = ri.offset + step]]

\* RunIndex::next_back with RunIndex::step over ..self.offset.  A key of
\* right_escape_bounds is never smaller than its value, so the subtraction
\* cannot go below zero.
RunIndex_next_back(t, ri) ==
    IF ri.end THEN [item |-> "None", val |-> 0, idx |-> ri]
    ELSE IF ri.offset > Len(t.s) \/ ~is_char_boundary(t.s, ri.offset)
         THEN [item |-> "panic", val |-> 0, idx |-> ri]
    ELSE IF ri.offset = 0
         THEN [item |-> "Some", val |-> ri.offset,
               idx |-> [ri EXCEPT !.end = TRUE]]
    ELSE LET step == IF ri.offset \in DOMAIN t.right_escape_bounds
                     THEN t.right_escape_bounds[ri.offset]
                     ELSE len_utf8_back(t.s, ri.offset)
         IN  [item |-> "Some", val |-> ri.offset,
              idx |-> [ri EXCEPT !.offset = ri.offset - step]]

RunIndex_step(t, ri, forward) ==
    IF forward THEN RunIndex_next(t, ri) ELSE RunIndex_next_back(t, ri)

RECURSIVE advance_then_next(_, _, _, _)
\* it.advance_by(n).ok().and_then(|()| it.next()), and the same backwards:
\* n calls that must all return Some, then the value of one more call
advance_then_next(t, ri, n, forward) ==
    LET r == RunIndex_step(t, ri, forward)
    IN  IF n <= 0 \/ r.item # "Some" THEN r
        ELSE advance_then_next(t, r.idx, n - 1, forward)

\* -------------------------------------------------- RunningText::iter(_at)
\* lines 107-117 and 155-165: .unwrap_or_default()
init_left_off(t) ==
    LET r == advance_then_next(t, RunIndex_new(Len(t.s)), t.w, FALSE)
    IN  [panic |-> r.item = "panic",
         off |-> IF r.item = "Some" THEN r.val ELSE 0]

\* lines 118-128 and 166-176: .unwrap_or(self.s.len())
init_right_off(t) ==
    LET r == advance_then_next(t, RunIndex_new(0), t.w, TRUE)
    IN  [panic |-> r.item = "panic",
         off |-> IF r.item = "Some" THEN r.val ELSE Len(t.s)]

RunIter_new(t, il, ir, lo, ro) ==
    [init_left_off |-> il, init_right_off |-> ir,
     left_off |-> RunIndex_new(lo), right_off |-> RunIndex_new(ro)]

NoIter == RunIter_new(NoText, 0, 0, 0, 0)

\* RunningText::iter: [panic, it]
iter(t) ==
    IF ~t.repeat
        THEN [panic |-> FALSE, it |-> RunIter_new(t, 0, Len(t.s), 0, Len(t.s))]
    ELSE LET l == init_left_off(t)
             r == init_right_off(t)
         IN  IF l.panic \/ r.panic THEN [panic |-> TRUE, it |-> NoIter]
             ELSE [panic |-> FALSE,
                   it |-> RunIter_new(t, l.off, r.off, 0, r.off)]

\* lines 179-182: the start of the first recorded run that contains idx,
\* else the character boundary at or below idx
iter_at_off(t, idx) ==
    LET hits == {i \in DOMAIN t.left_escape_bounds :
                    i <= idx /\ idx < i + t.left_escape_bounds[i]}
    IN  IF hits # {} THEN CHOOSE i \in hits : \A j \in hits : i <= j
        ELSE floor_char_boundary(t.s, idx)

\* RunningText::iter_at: [panic, it]
iter_at(t, idx) ==
    IF ~t.repeat
        THEN [panic |-> FALSE, it |-> RunIter_new(t, 0, Len(t.s), 0, Len(t.s))]
    ELSE LET l == init_left_off(t)
             r == init_right_off(t)
             off == iter_at_off(t, idx)
             o == advance_then_next(t, RunIndex_new(off), t.w, TRUE)
         IN  IF l.panic \/ r.panic \/ o.item = "panic"
                 THEN [panic |-> TRUE, it |-> NoIter]
             ELSE IF o.item = "Some"
                 THEN [panic |-> FALSE,
                       it |-> RunIter_new(t, l.off, r.off, off, o.val)]
             ELSE [panic |-> FALSE, it |-> RunIter_new(t, l.off, r.off, 0, r.off)]

\* --------------------------------------------------------------- RunIter
\* &self.s[left..right] panics when the range is reversed, past the end or
\* off a character boundary
slice_ok(s, left, right) ==
    /\ left <= right
    /\ right <= Len(s)
    /\ is_char_boundary(s, left)
    /\ is_char_boundary(s, right)

\* The result of RunIter::next / next_back: item is "Some" (the window is
\* s[left..right]) or "panic"; it is the iterator afterwards.
RunIter_result(t, l, r, it) ==
    IF l.item = "Some" /\ r.item = "Some" /\ slice_ok(t.s, l.val, r.val)
    THEN [item |-> "Some", left |-> l.val, right |-> r.val, it |-> it]
    ELSE [item |-> "panic", left |-> 0, right |-> 0, it |-> it]

\* RunIter::range
range(it) == [start |-> it.left_off.offset, end |-> it.right_off.offset]

\* RunIter::next
RunIter_next(t, it) ==
    LET l == RunIndex_next(t, it.left_off)
        r == RunIndex_next(t, it.right_off)
        stepped == [it EXCEPT !.left_off = l.idx, !.right_off = r.idx]
    IN  IF l.item = "Some" /\ r.item = "Some"
            THEN RunIter_result(t, l, r, stepped)
        ELSE IF l.item = "Some" /\ r.item = "None"
            THEN LET l2 == RunIndex_next(t, RunIndex_new(0))
                     r2 == RunIndex_next(t, RunIndex_new(it.init_right_off))
                 IN  RunIter_result(t, l2, r2,
                        [it EXCEPT !.left_off = l2.idx, !.right_off = r2.idx])
        ELSE [item |-> "panic", left |-> 0, right |-> 0, it |-> stepped]

\* RunIter::next_back
RunIter_next_back(t, it) ==
    LET l == RunIndex_next_back(t, it.left_off)
        r == RunIndex_next_back(t, it.right_off)
        stepped == [it EXCEPT !.left_off = l.idx, !.right_off = r.idx]
    IN  IF l.item = "Some" /\ r.item = "Some"
            THEN RunIter_result(t, l, r, stepped)
        ELSE IF l.item = "None" /\ r.item = "Some"
            THEN LET l2 == RunIndex_next_back(t, RunIndex_new(it.init_left_off))
                     r2 == RunIndex_next_back(t, RunIndex_new(Len(t.s)))
                 IN  RunIter_result(t, l2, r2,
                        [it EXCEPT !.left_off = l2.idx, !.right_off = r2.idx])
        ELSE [item |-> "panic", left |-> 0, right |-> 0, it |-> stepped]

\* ---------------------------------------------------------------- inputs
Chars == {<<"a">>, <<"b">>, <<"c3", "a9">>}

RECURSIVE Strings(_)
Strings(n) ==
    IF n = 0 THEN {<<>>} ELSE {c \o s : c \in Chars, s \in Strings(n - 1)}

Contents == UNION {Strings(n) : n \in 0..MaxLen}

Widths == 0..MaxWidth

\* the lists of (src, dest) rules given with the content
EscapeLists ==
    { <<>>,
      << <<(<<"a">>), (<<"x", "y">>)>> >>,
      << <<(<<"a">>), (<<>>)>> >>,
      << <<(<<"a", "b">>), (<<"x">>)>> >>,
      << <<(<<"a">>), (<<"b", "b">>)>> >>,
      << <<(<<"b">>), (<<"c3", "a9", "x">>)>> >>,
      << <<(<<"c3", "a9">>), (<<"x">>)>> >>,
      << <<(<<>>), (<<"x">>)>> >>,
      << <<(<<"a">>), (<<"x", "y">>)>>, <<(<<"b">>), (<<>>)>> >>,
      << <<(<<"a">>), (<<"b">>)>>, <<(<<"b">>), (<<"x", "y">>)>> >> }

\* ----------------------------------------------------------------- state
VARIABLES
    args,   \* the arguments of RunningText::new
    text,   \* the RunningText
    it,     \* the RunIter in use
    ret,    \* what the last next()/next_back() returned
    hist,   \* how `it` was made and which calls it has served since
    pc      \* "new": not built yet, "text": built, "iter": iterating,
            \* "panicked": a call panicked and the program is gone

\* The other parts of the program, each followed by a specification of its
\* own; while the running text is followed they stay as they start.
VARIABLES
    ti,     \* a TextIter and the content given to new_text (text_iter.rs)
    cmd,    \* a CmdSource and the command it runs (cmd.rs)
    fmt,    \* an MPD format string, parsed and displayed (mpd.rs)
    cli,    \* the command line tokens read by text_from_matches (main.rs)
    itf,    \* the iter subcommand and its iter file (main.rs)
    nl,     \* a call of replace_newline and its buffer (utils.rs)
    mpd     \* the MPD sources, their registry and poller threads (mpd.rs)

vars == <<args, text, it, ret, hist, pc, ti, cmd, fmt, cli, itf, nl, mpd>>

\* the variables of the running text
rt_vars == <<args, text, it, ret, hist, pc>>

\* a part that is not followed
Idle == [pc |-> "idle"]

NoRet == [item |-> "none", left |-> 0, right |-> 0]

\* hist.origin is "iter" or "iter_at" (with its idx), hist.dir the one
\* direction called so far and hist.k the number of calls; once both
\* directions have been called the history is no longer followed.
NoHist == [origin |-> "none", idx |-> 0, dir |-> "none", k |-> 0]
Mixed == [origin |-> "any", idx |-> 0, dir |-> "mixed", k |-> 0]

called(h, dir) ==
    IF h.dir \in {"none", dir}
    THEN [h EXCEPT !.dir = dir, !.k = h.k + 1]
    ELSE Mixed

Init ==
    /\ args \in [string : Contents, w : Widths, repeat : BOOLEAN,
                 escapes : EscapeLists]
    /\ text = NoText
    /\ it = NoIter
    /\ ret = NoRet
    /\ hist = NoHist
    /\ pc = "new"
    /\ ti = Idle /\ cmd = Idle /\ fmt = Idle /\ cli = Idle /\ itf = Idle
    /\ nl = Idle /\ mpd = Idle

\* RunningText::new, built with or without overflow checks
New ==
    /\ pc = "new"
    /\ \E overflow_checks \in BOOLEAN :
         LET t == new(args.string, args.w, args.repeat, args.escapes,
                      overflow_checks)
         IN  /\ text' = t
             /\ pc' = IF t.ok THEN "text" ELSE "panicked"
    /\ UNCHANGED <<args, it, ret, hist, ti, cmd, fmt, cli, itf, nl, mpd>>

\* text.iter(): the iterators only borrow the text, so one iterator per
\* behaviour shows everything a program holding several can see
Iter ==
    /\ pc = "text"
    /\ LET r == iter(text)
       IN  /\ it' = r.it
           /\ pc' = IF r.panic THEN "panicked" ELSE "iter"
    /\ ret' = NoRet
    /\ hist' = [origin |-> "iter", idx |-> 0, dir |-> "none", k |-> 0]
    /\ UNCHANGED <<args, text, ti, cmd, fmt, cli, itf, nl, mpd>>

\* text.iter_at(idx)
IterAt ==
    /\ pc = "text"
    /\ \E idx \in 0..Len(text.s) :
         LET r == iter_at(text, idx)
         IN  /\ it' = r.it
             /\ pc' = IF r.panic THEN "panicked" ELSE "iter"
             /\ hist' = [origin |-> "iter_at", idx |-> idx, dir |-> "none",
                         k |-> 0]
    /\ ret' = NoRet
    /\ UNCHANGED <<args, text, ti, cmd, fmt, cli, itf, nl, mpd>>

\* it.next()
Next_ ==
    /\ pc = "iter"
    /\ hist.k < MaxSteps
    /\ LET r == RunIter_next(text, it)
       IN  /\ it' = r.it
           /\ ret' = [item |-> r.item, left |-> r.left, right |-> r.right]
           /\ pc' = IF r.item = "panic" THEN "panicked" ELSE "iter"
    /\ hist' = called(hist, "next")
    /\ UNCHANGED <<args, text, ti, cmd, fmt, cli, itf, nl, mpd>>

\* it.next_back()
NextBack ==
    /\ pc = "iter"
    /\ hist.k < MaxSteps
    /\ LET r == RunIter_next_back(text, it)
       IN  /\ it' = r.it
           /\ ret' = [item |-> r.item, left |-> r.left, right |-> r.right]
           /\ pc' = IF r.item = "panic" THEN "panicked" ELSE "iter"
    /\ hist' = called(hist, "next_back")
    /\ UNCHANGED <<args, text, ti, cmd, fmt, cli, itf, nl, mpd>>

Next == New \/ Iter \/ IterAt \/ Next_ \/ NextBack

Spec == Init /\ [][Next]_vars

\* ------------------------------------------------------- logical units
\* The transformed text as the specification counts it: every character of
\* unreplaced text is one unit and every substituted non-empty run is one
\* unit.  head marks the first byte of each unit.
RECURSIVE marked_text(_, _, _)
marked_text(mt, escapes, j) ==
    IF j > Len(escapes) THEN mt
    ELSE LET src == escapes[j][1]
             dest == escapes[j][2]
             matches == corrected_matches(mt.s, src, dest)
             mark == [i \in 1..Len(dest) |-> i = 1]
         IN  IF src = <<>> THEN marked_text(mt, escapes, j + 1)
             ELSE marked_text(
                     [s |-> replace_matches(mt.s, matches, 1, Len(src), dest),
                      head |-> replace_matches(mt.head, matches, 1, Len(src), mark)],
                     escapes, j + 1)

RECURSIVE units_from(_, _, _)
units_from(mt, i, cur) ==
    IF i > Len(mt.s) THEN (IF cur = <<>> THEN <<>> ELSE <<cur>>)
    ELSE IF mt.head[i] /\ cur # <<>>
         THEN <<cur>> \o units_from(mt, i + 1, <<mt.s[i]>>)
         ELSE units_from(mt, i + 1, Append(cur, mt.s[i]))

\* the logical units of the transformed text of the arguments
Units ==
    units_from(marked_text([s |-> args.string,
                            head |-> [i \in 1..Len(args.string) |->
                                        ~IsCont(args.string[i])]],
                           args.escapes, 1),
               1, <<>>)

RECURSIVE cycle(_, _, _)
\* m units of the cycle U starting with unit p (counted from 0)
cycle(U, p, m) ==
    IF m <= 0 THEN <<>>
    ELSE U[(p % Len(U)) + 1] \o cycle(U, p + 1, m - 1)

\* the whole transformed text
Transformed == IF Units = <<>> THEN <<>> ELSE cycle(Units, 0, Len(Units))

\* the window a call returned
Window == SubSeq(text.s, ret.left + 1, ret.right)

RECURSIVE recorded_units(_, _, _)
\* the number of steps from offset a to offset b, a recorded run being one
\* step and any other character one step; -1 when b is stepped over
recorded_units(t, a, b) ==
    IF a = b THEN 0
    ELSE IF a > b THEN 0 - 1
    ELSE LET step == IF a \in DOMAIN t.left_escape_bounds
                     THEN t.left_escape_bounds[a]
                     ELSE len_utf8(t.s, a)
             rest == recorded_units(t, a + step, b)
         IN  IF rest < 0 THEN rest ELSE rest + 1

RECURSIVE nth_window(_, _, _, _)
\* what the j-th call (j >= 1) in one direction returns on iterator i:
\* the window, or <<"panic">>
nth_window(t, i, j, forward) ==
    LET r == IF forward THEN RunIter_next(t, i) ELSE RunIter_next_back(t, i)
    IN  IF r.item = "panic" THEN <<"panic">>
        ELSE IF j <= 1 THEN SubSeq(t.s, r.left + 1, r.right)
        ELSE nth_window(t, r.it, j - 1, forward)

\* the iterator hist.origin names, as it was when made
Origin ==
    IF hist.origin = "iter_at" THEN iter_at(text, hist.idx).it ELSE iter(text).it

OneWay == hist.dir \in {"next", "next_back"}

\* no rule has the empty string as its pattern
NoEmptyPattern == \A j \in DOMAIN args.escapes : args.escapes[j][1] # <<>>

\* arguments the construction is defined for
ValidArgs == args.string # <<>> /\ args.w >= 1 /\ NoEmptyPattern

\* C1: in repeating mode every window returned by next() or next_back(), on
\* an iterator from iter() or iter_at(), spans exactly `width` logical units,
\* a recorded atomic run being one unit and any other character one unit.
C1_WindowIsWidthUnits ==
    (ValidArgs /\ Units # <<>> /\ text.repeat /\ OneWay /\ ret.item = "Some")
        => recorded_units(text, ret.left, ret.right) = text.w

\* C2: in repeating mode the k-th window (k = 0, 1, ...) that next() returns
\* on a fresh iter() is units k, k+1, ..., k+width-1 of the cycle of the
\* transformed text.
C2_KthWindowIsCycleSlice ==
    (ValidArgs /\ text.repeat /\ hist.origin = "iter" /\ hist.dir = "next"
        /\ ret.item = "Some" /\ Units # <<>>)
        => Window = cycle(Units, hist.k - 1, text.w)

\* C3: the windows of next() on a fresh iter() are periodic, the period being
\* the number of logical units of the content with its separator: the window
\* of call k equals the window of call k - n.
C3_PeriodIsUnitCount ==
    (ValidArgs /\ text.repeat /\ hist.origin = "iter" /\ hist.dir = "next"
        /\ ret.item = "Some" /\ Units # <<>> /\ hist.k > Len(Units))
        => Window = nth_window(text, iter(text).it, hist.k - Len(Units), TRUE)

\* C4: with f the windows of next() and b the windows of next_back() on
\* iterators made the same way (iter(), or iter_at at one offset), b_0 = f_0
\* and b_k = f_(n-k) for 1 <= k <= n, n the logical length of the cycle.
C4_BackwardIsForwardReversed ==
    (ValidArgs /\ text.repeat /\ hist.dir = "next_back" /\ ret.item = "Some"
        /\ Units # <<>> /\ hist.k <= Len(Units) + 1)
        => Window = nth_window(text, Origin,
                        IF hist.k = 1 THEN 1 ELSE Len(Units) - (hist.k - 1) + 1,
                        TRUE)

\* a window made of whole units of the cycle
unit_aligned(U, win) ==
    \/ win = <<>>
    \/ /\ U # <<>>
       /\ \E p \in 0..(Len(U) - 1) : \E m \in 1..Len(win) : win = cycle(U, p, m)

NonEmptyDests == \A j \in DOMAIN args.escapes : args.escapes[j][2] # <<>>

\* C5: with non-empty replacements, every window of next() or next_back()
\* holds each substituted run completely or not at all: it neither begins
\* nor ends inside a substituted run.
C5_EscapeAtomicity ==
    (ValidArgs /\ NonEmptyDests /\ OneWay /\ ret.item = "Some")
        => unit_aligned(Units, Window)

\* C6: with repeat false and width >= the character count of the content,
\* every call of next() and every call of next_back(), on an iterator from
\* iter() or iter_at(i), returns the whole transformed text.
C6_StaticFit ==
    (ValidArgs /\ ~args.repeat /\ args.w >= chars_count(args.string) /\ OneWay)
        => (ret.item = "Some" /\ Window = Transformed)

\* C7: in fits mode next() leaves the iterator as it was: range() stays
\* 0..len (and get() the full text) after any number of next() calls.
C7_FitsNextKeepsRange ==
    (text.ok /\ ~text.repeat /\ pc = "iter" /\ hist.dir \in {"none", "next"})
        => range(it) = [start |-> 0, end |-> Len(text.s)]

\* C8: with repeat false, new selects fits mode when width equals the number
\* of logical units of the transformed content and repeating mode when width
\* is one less than that number.
C8_ModeBoundary ==
    (ValidArgs /\ text.ok /\ ~args.repeat)
        => /\ (args.w = Len(Units) => ~text.repeat)
           /\ (args.w = Len(Units) - 1 => text.repeat)

\* the byte offset of unit K of the cycle
unit_offset(U, K) == Len(cycle(U, 0, K))

\* C9: for repeating content, an iterator started by iter_at at logical
\* offset K (the byte offset where unit K begins) and stepped N times with
\* next() returns, at step N, the window that iter() returns at step K + N.
C9_ResumeEquivalence ==
    (ValidArgs /\ text.repeat /\ hist.origin = "iter_at" /\ hist.dir = "next"
        /\ ret.item = "Some" /\ Units # <<>>)
        => \A K \in 0..(Len(Units) - 1) :
              hist.idx = unit_offset(Units, K)
                  => Window = nth_window(text, iter(text).it, K + hist.k, TRUE)

\* C10: for non-empty content and width >= 1, every one of any number of
\* consecutive next() calls, and of consecutive next_back() calls, returns
\* Some(window): no None, no slice out of range, no unreachable!().
C10_OneWayNeverFails ==
    (ValidArgs /\ OneWay) => ret.item = "Some"

\* C11: on a text new has built (fits or repeating mode), next() and
\* next_back() called on one iterator in any interleaved order each return
\* a window: a call made after the direction has changed never fails.
C11_DirectionSwitchNeverFails ==
    (ValidArgs /\ Units # <<>> /\ hist.dir = "mixed") => ret.item = "Some"

\* the arguments new has to reject: width 0, or empty content with repeat
InvalidArgs == args.w = 0 \/ (args.string = <<>> /\ args.repeat)

\* C12: called with width 0, or with empty content and repeat = true, new
\* returns a construction error: it neither panics nor builds a text.
C12_InvalidInputIsAnError ==
    (pc # "new" /\ InvalidArgs)
        => (~text.ok /\ text.fail = "ConstructionError")

\* C13: a rule whose pattern is the empty string is rejected by new: the
\* replacement is not inserted between the characters and no boundary entry
\* is recorded for it, no text is built.
C13_EmptyPatternIsRejected ==
    (pc # "new" /\ args.string # <<>> /\ args.w >= 1 /\ ~NoEmptyPattern)
        => (~text.ok /\ text.fail = "ConstructionError")

\* C19: the char_count new computes, which selects the mode and gives q and
\* r, is the number of logical units of the transformed text, for every
\* content and rule list.
C19_CharCountIsUnitCount ==
    (ValidArgs /\ pc # "new")
        => char_count(args.string, args.escapes) = Len(Units)

\* C20: in repeating mode the backing text is q + 1 whole copies of the
\* transformed text followed by its first r logical units, q and r being the
\* quotient and remainder of width - 1 by the number n of units: n + width - 1
\* units of the cycle in all, for every q >= 0.
C20_BackingTextIsCopiesAndTail ==
    (ValidArgs /\ Units # <<>> /\ text.ok /\ text.repeat)
        => text.s = cycle(Units, 0, Len(Units) + text.w - 1)

\* ------------------------------------------- main.rs: the iter subcommand
\* longest iter file, in characters
MaxFileLen == 4

FileChars == {"0", "1", "+", " ", "a"}

RECURSIVE FileData(_)
FileData(n) ==
    IF n = 0 THEN {<<>>}
    ELSE FileData(n - 1) \cup {Append(d, c) : d \in FileData(n - 1), c \in FileChars}

\* the iter file as fs::read_to_string finds it: absent, unreadable (any
\* other io error), or holding data
IterFiles ==
    {[kind |-> k, data |-> <<>>] : k \in {"missing", "denied"}}
        \cup {[kind |-> "data", data |-> d] : d \in FileData(MaxFileLen)}

\* the text the sources give on this invocation
FreshTexts == {<<>>, <<"a">>, <<"a", "a">>}

RECURSIVE digits_value(_)
digits_value(d) ==
    IF d = <<>> THEN 0
    ELSE 10 * digits_value(SubSeq(d, 1, Len(d) - 1))
         + (IF d[Len(d)] = "1" THEN 1 ELSE 0)

\* number.parse::<usize>(): an optional '+' and at least one digit
parse_usize(number) ==
    LET digits == IF number # <<>> /\ number[1] = "+" THEN Tail(number)
                  ELSE number
    IN  IF digits = <<>> \/ \E k \in DOMAIN digits : digits[k] \notin {"0", "1"}
        THEN [ok |-> FALSE, val |-> 0]
        ELSE [ok |-> TRUE, val |-> digits_value(digits)]

\* s.split_once(' ')
split_once(s) ==
    IF \E k \in DOMAIN s : s[k] = " "
    THEN LET k == CHOOSE k \in DOMAIN s :
                     s[k] = " " /\ \A j \in 1..(k - 1) : s[j] # " "
         IN  [some |-> TRUE, left |-> SubSeq(s, 1, k - 1),
              right |-> SubSeq(s, k + 1, Len(s))]
    ELSE [some |-> FALSE, left |-> <<>>, right |-> <<>>]

\* main.rs 378-394: the (i, prev_content) read from the iter file, or the
\* error main returns
read_iter_file(file) ==
    LET sp == split_once(file.data)
        n == parse_usize(sp.left)
    IN  IF file.kind = "missing"
            THEN [ok |-> TRUE, i |-> 0, prev_content |-> <<>>]
        ELSE IF file.kind = "denied" \/ ~sp.some \/ ~n.ok
            THEN [ok |-> FALSE, i |-> 0, prev_content |-> <<>>]
        ELSE [ok |-> TRUE, i |-> n.val, prev_content |-> sp.right]

InitIter ==
    /\ itf \in [pc : {"start"}, file : IterFiles, fresh : FreshTexts,
                stdout : {<<>>}, result : {"none"}, i : {0},
                prev_content : {<<>>}]
    /\ args = [string |-> <<>>, w |-> 0, repeat |-> FALSE, escapes |-> <<>>]
    /\ text = NoText /\ it = NoIter /\ ret = NoRet /\ hist = NoHist
    /\ pc = "idle"
    /\ ti = Idle /\ cmd = Idle /\ fmt = Idle /\ cli = Idle
    /\ nl = Idle /\ mpd = Idle

\* main.rs 376-397, the "iter" arm: the file is read and parsed; the two
\* statements that print a frame and rewrite the file are commented out
\* (lines 395-396), so standard output and the file are left as they are.
IterSubcommand ==
    /\ itf.pc = "start"
    /\ LET r == read_iter_file(itf.file)
       IN  itf' = [itf EXCEPT !.pc = "done",
                              !.result = IF r.ok THEN "Ok" ELSE "Err",
                              !.i = r.i,
                              !.prev_content = r.prev_content]
    /\ UNCHANGED <<rt_vars, ti, cmd, fmt, cli, nl, mpd>>

NextIter == IterSubcommand

SpecIter == InitIter /\ [][NextIter]_vars

\* the offset of the frame an invocation has to print
resume_offset == IF itf.prev_content = itf.fresh THEN itf.i ELSE 0

\* a record without a space or with a non-numeric offset
MalformedRecord ==
    /\ itf.file.kind = "data"
    /\ \/ ~split_once(itf.file.data).some
       \/ ~parse_usize(split_once(itf.file.data).left).ok

\* C14: an invocation of the iter subcommand prints the frame at offset 0
\* when the fresh text differs from the stored text and the frame at the
\* stored offset otherwise, and rewrites the file with the current text; a
\* missing file counts as offset 0 with empty text; a malformed record is an
\* error that prints no frame.
C14_IterResumesFromFile ==
    (itf.pc = "done")
        => /\ MalformedRecord => (itf.result = "Err" /\ itf.stdout = <<>>)
           /\ itf.result = "Ok" =>
                 /\ itf.stdout = <<[text |-> itf.fresh,
                                    offset |-> resume_offset]>>
                 /\ itf.file.kind = "data"
                 /\ split_once(itf.file.data).right = itf.fresh

\* ------------------------------------------- main.rs: text_from_matches
\* longest command line, in tokens
MaxTokens == 3

\* main.rs 110 (and the default of --window, line 210)
DefaultWindow == 32

\* An ArgToken: kind is the source type ("String", "File") or the option;
\* s is the string it carries (for File: the content of the file), n the
\* number of Window, b the flag of Repeat/Reset (for File: the file can be
\* read).
ArgToken(kind, str, n, b) == [kind |-> kind, s |-> str, n |-> n, b |-> b]

SourceKinds == {"String", "File"}

ArgTokens ==
    { ArgToken("String", <<"a">>, 0, FALSE),
      ArgToken("String", <<"c3", "a9", "b">>, 0, FALSE),
      ArgToken("File", <<"b", "b", "b">>, 0, TRUE),
      ArgToken("File", <<>>, 0, FALSE),
      ArgToken("Window", <<>>, 2, FALSE),
      ArgToken("Separator", <<"x">>, 0, FALSE),
      ArgToken("Newline", <<"y">>, 0, FALSE),
      ArgToken("Replacements", <<"a", "b">>, 0, FALSE),
      ArgToken("Repeat", <<>>, 0, TRUE),
      ArgToken("Reset", <<>>, 0, TRUE) }

RECURSIVE TokenLists(_)
TokenLists(n) ==
    IF n = 0 THEN {<<>>}
    ELSE TokenLists(n - 1)
         \cup {Append(l, t) : l \in TokenLists(n - 1), t \in ArgTokens}

\* the command lines clap lets through: the group "sources" is required
CommandLines ==
    {l \in TokenLists(MaxTokens) : \E k \in DOMAIN l : l[k].kind \in SourceKinds}

\* main.rs 106-118: the settings before the first token, and after a source
\* has been built, with the window given
defaults(window) ==
    [window |-> window, separator |-> <<>>, newline |-> <<>>,
     replacements |-> <<>>, repeat |-> FALSE, reset |-> FALSE]

\* main.rs 125-133 and 183-191: the RunningText pushed for source token src
\* under the settings st
built(src, st) ==
    [source |-> src, window |-> st.window, separator |-> st.separator,
     newline |-> st.newline, replacements |-> st.replacements,
     repeat |-> st.repeat, reset |-> st.reset]

\* source_from_token (main.rs 71-86) fails when the file cannot be read
source_ok(src) == src.kind # "File" \/ src.b

RECURSIVE token_loop(_, _, _, _, _)
\* main.rs 120-180: the loop over the tokens from token k on; st holds the
\* settings, result the texts built, previous the source token waiting to
\* be built (<<>> for None)
token_loop(tokens, k, st, result, previous) ==
    IF k > Len(tokens)
    THEN \* main.rs 181-193
         IF previous = <<>> THEN [ok |-> TRUE, result |-> result]
         ELSE IF ~source_ok(previous[1]) THEN [ok |-> FALSE, result |-> <<>>]
         ELSE [ok |-> TRUE, result |-> Append(result, built(previous[1], st))]
    ELSE LET t == tokens[k]
         IN  IF t.kind \in SourceKinds
             THEN IF previous = <<>>
                  THEN token_loop(tokens, k + 1, st, result, <<t>>)
                  ELSE IF ~source_ok(previous[1])
                  THEN [ok |-> FALSE, result |-> <<>>]
                  ELSE \* lines 134-138: source_token is the previous source
                       token_loop(tokens, k + 1,
                           defaults(IF previous[1].kind = "String"
                                    THEN chars_count(previous[1].s)
                                    ELSE DefaultWindow),
                           Append(result, built(previous[1], st)), <<t>>)
             ELSE token_loop(tokens, k + 1,
                      CASE t.kind = "Window" -> [st EXCEPT !.window = t.n]
                        [] t.kind = "Separator" -> [st EXCEPT !.separator = t.s]
                        [] t.kind = "Newline" -> [st EXCEPT !.newline = t.s]
                        [] t.kind = "Replacements" ->
                               [st EXCEPT !.replacements = t.s]
                        [] t.kind = "Repeat" -> [st EXCEPT !.repeat = t.b]
                        [] t.kind = "Reset" -> [st EXCEPT !.reset = t.b],
                      result, previous)

\* text_from_matches (main.rs 89-194)
text_from_matches(tokens) ==
    token_loop(tokens, 1, defaults(DefaultWindow), <<>>, <<>>)

InitCli ==
    /\ cli \in [pc : {"start"}, tokens : CommandLines, ok : {FALSE},
                result : {<<>>}]
    /\ args = [string |-> <<>>, w |-> 0, repeat |-> FALSE, escapes |-> <<>>]
    /\ text = NoText /\ it = NoIter /\ ret = NoRet /\ hist = NoHist
    /\ pc = "idle"
    /\ ti = Idle /\ cmd = Idle /\ fmt = Idle /\ itf = Idle
    /\ nl = Idle /\ mpd = Idle

\* main.rs 347: let mut fragments = text_from_matches(&mut matches)?
TextFromMatches ==
    /\ cli.pc = "start"
    /\ LET r == text_from_matches(cli.tokens)
       IN  cli' = [cli EXCEPT !.pc = IF r.ok THEN "matched" ELSE "failed",
                              !.ok = r.ok, !.result = r.result]
    /\ UNCHANGED <<rt_vars, ti, cmd, fmt, itf, nl, mpd>>

NextCli == TextFromMatches

SpecCli == InitCli /\ [][NextCli]_vars

\* the positions of the source tokens of the command line, in order
RECURSIVE source_positions(_, _)
source_positions(tokens, k) ==
    IF k > Len(tokens) THEN <<>>
    ELSE (IF tokens[k].kind \in SourceKinds THEN <<k>> ELSE <<>>)
         \o source_positions(tokens, k + 1)

\* the j-th source has a --window of its own: one given after it and before
\* the next source, or, for the first source, before it
has_own_window(tokens, j) ==
    LET ps == source_positions(tokens, 1)
        from == IF j = 1 THEN 1 ELSE ps[j]
        to == IF j = Len(ps) THEN Len(tokens) ELSE ps[j + 1]
    IN  \E k \in from..to : tokens[k].kind = "Window"

\* C15: a --string source with no --window of its own gets a window equal to
\* the number of characters of its string, any other source without one
\* gets 32, whatever the position of the source among the sources.
C15_StringDefaultWindow ==
    (cli.pc = "matched")
        => \A j \in DOMAIN cli.result :
              ~has_own_window(cli.tokens, j)
                  => cli.result[j].window
                       = IF cli.result[j].source.kind = "String"
                         THEN chars_count(cli.result[j].source.s)
                         ELSE DefaultWindow

\* the settings after the option tokens from position k to position to have
\* been read in order, starting from st
RECURSIVE scoped_settings(_, _, _, _)
scoped_settings(tokens, k, to, st) ==
    IF k > to THEN st
    ELSE LET t == tokens[k]
         IN  scoped_settings(tokens, k + 1, to,
                 CASE t.kind = "Window" -> [st EXCEPT !.window = t.n]
                   [] t.kind = "Separator" -> [st EXCEPT !.separator = t.s]
                   [] t.kind = "Newline" -> [st EXCEPT !.newline = t.s]
                   [] t.kind = "Replacements" ->
                          [st EXCEPT !.replacements = t.s]
                   [] t.kind = "Repeat" -> [st EXCEPT !.repeat = t.b]
                   [] t.kind = "Reset" -> [st EXCEPT !.reset = t.b]
                   [] OTHER -> st)

\* what the j-th source is to be built with: the defaults, the window
\* default being window, changed by the options given from its own token
\* to the next source token, for the first source from the first token on
scoped_build(tokens, j, window) ==
    LET ps == source_positions(tokens, 1)
        from == IF j = 1 THEN 1 ELSE ps[j]
        to == IF j = Len(ps) THEN Len(tokens) ELSE ps[j + 1] - 1
    IN  built(tokens[ps[j]],
              scoped_settings(tokens, from, to, defaults(window)))

\* the j-th source was built with the five settings other than the window
\* that its own options give
scoped_but_window(tokens, j, text_built) ==
    [scoped_build(tokens, j, DefaultWindow) EXCEPT !.window = 0]
        = [text_built EXCEPT !.window = 0]

\* C36: every source is built with the window, separator, newline,
\* replacements, repeat and reset given since the previous source token, for
\* the first source also those given before it; after a source is built the
\* six values are back at their defaults (for the window: 32, or the length
\* of the source's own string), so that no option given for one source
\* reaches a later one.
C36_OptionsScopedPerSource ==
    (cli.pc = "matched")
        => \A j \in DOMAIN cli.result :
              cli.result[j]
                 \in {scoped_build(cli.tokens, j, DefaultWindow),
                      scoped_build(cli.tokens, j,
                          IF cli.result[j].source.kind = "String"
                          THEN chars_count(cli.result[j].source.s)
                          ELSE DefaultWindow)}

\* ------------------------------------------------ text_iter.rs: TextIter
Separators == {<<>>, <<"a">>, <<"b", "a">>}

\* the replacements a TextIter is made with
TiReplacements ==
    { <<>>,
      << <<(<<"a">>), (<<"x", "y">>)>> >>,
      << <<(<<"a">>), (<<>>)>> >>,
      << <<(<<"a", "b">>), (<<"x">>)>> >>,
      << <<(<<"b">>), (<<"c3", "a9", "x">>)>> >>,
      << <<(<<>>), (<<"x">>)>> >> }

\* a mutation of join_separator: the separator is appended only on repeat
join_separator_on_repeat_only(content, separator, w, repeat) ==
    IF repeat THEN content \o separator ELSE content

\* text_iter.rs 40-42: the content handed to RunningText::new
join_separator(content, separator, w, repeat) ==
    IF repeat \/ chars_count(content) > w THEN content \o separator
    ELSE content

InitTextIter ==
    /\ ti \in [pc : {"start"}, content : Contents, separator : Separators,
               w : Widths, repeat : BOOLEAN, replacements : TiReplacements]
    /\ args = [string |-> <<>>, w |-> 0, repeat |-> FALSE, escapes |-> <<>>]
    /\ text = NoText /\ it = NoIter /\ ret = NoRet /\ hist = NoHist
    /\ pc = "idle"
    /\ cmd = Idle /\ fmt = Idle /\ cli = Idle /\ itf = Idle
    /\ nl = Idle /\ mpd = Idle

\* TextIter::new_text(content) (text_iter.rs 39-50): args are the arguments
\* it hands to RunningText::new and text is what new returns
NewText ==
    /\ ti.pc = "start"
    /\ \E overflow_checks \in BOOLEAN :
         LET string == join_separator(ti.content, ti.separator, ti.w, ti.repeat)
             t == new(string, ti.w, ti.repeat, ti.replacements, overflow_checks)
         IN  /\ args' = [string |-> string, w |-> ti.w, repeat |-> ti.repeat,
                         escapes |-> ti.replacements]
             /\ text' = t
             /\ ti' = [ti EXCEPT !.pc = IF t.ok THEN "built" ELSE "panicked"]
    /\ UNCHANGED <<it, ret, hist, pc, cmd, fmt, cli, itf, nl, mpd>>

NextTextIter == NewText

SpecTextIter == InitTextIter /\ [][NextTextIter]_vars

\* the byte offsets at which the units of U begin, unit k at index k
unit_starts(U) == [k \in 1..Len(U) |-> Len(cycle(U, 0, k - 1))]

\* C16: new_text appends the separator once to the content when repeat is
\* requested or the content has more characters than the width (and not
\* otherwise), and the rules are applied to content and separator together:
\* the text begins with the transformed content-and-separator, and in
\* repeating mode every run of more than one character substituted in it,
\* in the separator as in the content, is recorded as an atomic run.
C16_SeparatorJoinedThenReplaced ==
    (ti.pc = "built")
        => /\ args.string
                = (IF ti.repeat \/ chars_count(ti.content) > ti.w
                   THEN ti.content \o ti.separator ELSE ti.content)
           /\ NoEmptyPattern =>
                 /\ SubSeq(text.s, 1, Len(Transformed)) = Transformed
                 /\ text.repeat =>
                       \A k \in DOMAIN Units :
                           chars_count(Units[k]) > 1 =>
                               LET o == unit_starts(Units)[k]
                               IN  /\ o \in DOMAIN text.left_escape_bounds
                                   /\ text.left_escape_bounds[o] = Len(Units[k])
                                   /\ (o + Len(Units[k]))
                                        \in DOMAIN text.right_escape_bounds

\* a pattern that occurs in the separator only has been substituted and
\* recorded as a run
C16_Witness ==
    /\ ti.pc = "built"
    /\ text.repeat
    /\ ti.content = <<"b">>
    /\ ti.separator = <<"a">>
    /\ text.s = <<"b", "x", "y">>
    /\ text.left_escape_bounds = (1 :> 2)

\* -------------------------------------------------------- cmd.rs: CmdSource
MaxPolls == 4

\* what one run of the command can give: the spawn or the wait fails, or
\* the child's standard output, as bytes
CmdStdouts ==
    {<<>>, <<"a">>, <<"b">>, <<"c3", "a9">>, <<"c3">>, <<"a9", "a">>}

CmdOutcomes ==
    {[io |-> "Err", stdout |-> <<>>]}
        \cup {[io |-> "Ok", stdout |-> o] : o \in CmdStdouts}

NoOutcome == [io |-> "none", stdout |-> <<>>]

\* String::from_utf8 on the bytes of the model: "c3" begins a two-byte
\* sequence that "a9" completes, every other byte is ASCII
RECURSIVE from_utf8(_)
from_utf8(bytes) ==
    IF bytes = <<>> THEN TRUE
    ELSE IF Head(bytes) = "c3"
         THEN /\ Len(bytes) >= 2
              /\ bytes[2] = "a9"
              /\ from_utf8(SubSeq(bytes, 3, Len(bytes)))
    ELSE IF Head(bytes) = "a9" THEN FALSE
    ELSE from_utf8(Tail(bytes))

\* Command::spawn_and_read_output (cmd.rs 33-42)
spawn_and_read_output(outcome) ==
    IF outcome.io = "Err" THEN [ok |-> FALSE, err |-> "Io", val |-> <<>>]
    ELSE IF ~from_utf8(outcome.stdout)
         THEN [ok |-> FALSE, err |-> "UTF8", val |-> <<>>]
    ELSE [ok |-> TRUE, err |-> "none", val |-> outcome.stdout]

\* a mutation of get_if_changed: a changed output is returned but not
\* remembered
get_if_changed_not_recording(last_output, outcome) ==
    LET output == spawn_and_read_output(outcome)
    IN  IF ~output.ok
        THEN [last_output |-> last_output, spawned |-> 1,
              result |-> [kind |-> "SomeErr", err |-> output.err, val |-> <<>>]]
        ELSE IF last_output = output.val
        THEN [last_output |-> last_output, spawned |-> 1,
              result |-> [kind |-> "None", err |-> "none", val |-> <<>>]]
        ELSE [last_output |-> last_output, spawned |-> 1,
              result |-> [kind |-> "SomeOk", err |-> "none", val |-> output.val]]

\* a mutation of get_if_changed: a failed run forgets the remembered output
get_if_changed_forgetting(last_output, outcome) ==
    LET output == spawn_and_read_output(outcome)
    IN  IF ~output.ok
        THEN [last_output |-> <<>>, spawned |-> 1,
              result |-> [kind |-> "SomeErr", err |-> output.err, val |-> <<>>]]
        ELSE IF last_output = output.val
        THEN [last_output |-> last_output, spawned |-> 1,
              result |-> [kind |-> "None", err |-> "none", val |-> <<>>]]
        ELSE [last_output |-> output.val, spawned |-> 1,
              result |-> [kind |-> "SomeOk", err |-> "none", val |-> output.val]]

\* CmdSource::get_if_changed (cmd.rs 94-107): the new last_output, the
\* number of runs of the command and the value returned
get_if_changed(last_output, outcome) ==
    LET output == spawn_and_read_output(outcome)
    IN  IF ~output.ok
        THEN [last_output |-> last_output, spawned |-> 1,
              result |-> [kind |-> "SomeErr", err |-> output.err, val |-> <<>>]]
        ELSE IF last_output = output.val
        THEN [last_output |-> last_output, spawned |-> 1,
              result |-> [kind |-> "None", err |-> "none", val |-> <<>>]]
        ELSE [last_output |-> output.val, spawned |-> 1,
              result |-> [kind |-> "SomeOk", err |-> "none", val |-> output.val]]

\* CmdSource::get (cmd.rs 87-93)
get(last_output, outcome) ==
    IF last_output # <<>>
    THEN [last_output |-> last_output, spawned |-> 0,
          result |-> [kind |-> "Ok", err |-> "none", val |-> last_output]]
    ELSE LET r == get_if_changed(last_output, outcome)
         IN  [r EXCEPT !.result =
                 IF r.result.kind = "None"
                 THEN [kind |-> "Ok", err |-> "none", val |-> <<>>]
                 ELSE IF r.result.kind = "SomeOk"
                 THEN [kind |-> "Ok", err |-> "none", val |-> r.result.val]
                 ELSE [kind |-> "Err", err |-> r.result.err, val |-> <<>>]]

\* CmdSource::get of text_source.rs (44-54), the polling call of the enum
\* flavour of the source: a failed run panics in expect, an equal output
\* gives ContentChange::empty(), another output is written to content,
\* remembered and reported as ContentChange::Running
CmdSource_get(last_output, outcome) ==
    LET output == spawn_and_read_output(outcome)
    IN  IF ~output.ok
        THEN [last_output |-> last_output, spawned |-> 1,
              result |-> [kind |-> "panic", err |-> output.err, val |-> <<>>]]
        ELSE IF last_output = output.val
        THEN [last_output |-> last_output, spawned |-> 1,
              result |-> [kind |-> "empty", err |-> "none", val |-> <<>>]]
        ELSE [last_output |-> output.val, spawned |-> 1,
              result |-> [kind |-> "Running", err |-> "none", val |-> output.val]]

\* CmdSource::new (cmd.rs 76-83, text_source.rs 32-43); log is the history
\* of the calls made, pc tells the flavour of the source: "polling" for the
\* trait implementation of cmd.rs, "content" for the one of text_source.rs
InitCmd ==
    /\ cmd \in {[pc |-> p, last_output |-> <<>>, log |-> <<>>] :
                    p \in {"polling", "content"}}
    /\ args = [string |-> <<>>, w |-> 0, repeat |-> FALSE, escapes |-> <<>>]
    /\ text = NoText /\ it = NoIter /\ ret = NoRet /\ hist = NoHist
    /\ pc = "idle"
    /\ ti = Idle /\ fmt = Idle /\ cli = Idle /\ itf = Idle
    /\ nl = Idle /\ mpd = Idle

call_record(op, before, outcome, r) ==
    [op |-> op, before |-> before,
     outcome |-> IF r.spawned = 0 THEN NoOutcome ELSE outcome,
     after |-> r.last_output, spawned |-> r.spawned, result |-> r.result]

GetIfChanged ==
    /\ cmd.pc = "polling"
    /\ Len(cmd.log) < MaxPolls
    /\ \E outcome \in CmdOutcomes :
         LET r == get_if_changed(cmd.last_output, outcome)
         IN  cmd' = [cmd EXCEPT
                       !.last_output = r.last_output,
                       !.log = Append(@, call_record("get_if_changed",
                                   cmd.last_output, outcome, r))]
    /\ UNCHANGED <<rt_vars, ti, fmt, cli, itf, nl, mpd>>

Get ==
    /\ cmd.pc = "polling"
    /\ Len(cmd.log) < MaxPolls
    /\ \E outcome \in CmdOutcomes :
         LET r == get(cmd.last_output, outcome)
         IN  cmd' = [cmd EXCEPT
                       !.last_output = r.last_output,
                       !.log = Append(@, call_record("get",
                                   cmd.last_output, outcome, r))]
    /\ UNCHANGED <<rt_vars, ti, fmt, cli, itf, nl, mpd>>

\* TextSource::get_content on a Cmd source (text_source.rs 121-133)
GetContent ==
    /\ cmd.pc = "content"
    /\ Len(cmd.log) < MaxPolls
    /\ \E outcome \in CmdOutcomes :
         LET r == CmdSource_get(cmd.last_output, outcome)
         IN  cmd' = [cmd EXCEPT
                       !.pc = IF r.result.kind = "panic" THEN "panicked" ELSE @,
                       !.last_output = r.last_output,
                       !.log = Append(@, call_record("get_content",
                                   cmd.last_output, outcome, r))]
    /\ UNCHANGED <<rt_vars, ti, fmt, cli, itf, nl, mpd>>

NextCmd == GetIfChanged \/ Get \/ GetContent

SpecCmd == InitCmd /\ [][NextCmd]_vars

\* the call recorded at k is a get_if_changed whose command could not be run
\* or printed invalid UTF-8
failed_poll(k) ==
    /\ cmd.log[k].op = "get_if_changed"
    /\ \/ cmd.log[k].outcome.io = "Err"
       \/ ~from_utf8(cmd.log[k].outcome.stdout)

\* C17: when the command cannot be run or prints invalid UTF-8,
\* get_if_changed returns Some(Err(e)) carrying that error, leaves
\* last_output as it was and runs the command once; the next poll compares
\* the new output against the output remembered before the failure.
C17_FailedPollChangesNothing ==
    (cmd.pc = "polling") =>
        \A k \in DOMAIN cmd.log :
            failed_poll(k) =>
                /\ cmd.log[k].result.kind = "SomeErr"
                /\ cmd.log[k].result.err
                     = (IF cmd.log[k].outcome.io = "Err" THEN "Io" ELSE "UTF8")
                /\ cmd.log[k].after = cmd.log[k].before
                /\ cmd.log[k].spawned = 1
                /\ (/\ k < Len(cmd.log)
                    /\ cmd.log[k + 1].op = "get_if_changed"
                    /\ ~failed_poll(k + 1))
                      => LET o == cmd.log[k + 1].outcome.stdout
                         IN  IF o = cmd.log[k].before
                             THEN cmd.log[k + 1].result.kind = "None"
                             ELSE /\ cmd.log[k + 1].result.kind = "SomeOk"
                                  /\ cmd.log[k + 1].result.val = o

\* an output was remembered, a poll failed on invalid UTF-8, and the poll
\* after it saw the remembered output again and reported no change
C17_Witness ==
    /\ cmd.pc = "polling"
    /\ \E k \in DOMAIN cmd.log :
         /\ failed_poll(k)
         /\ cmd.log[k].outcome.io = "Ok"
         /\ cmd.log[k].before # <<>>
         /\ k < Len(cmd.log)
         /\ cmd.log[k + 1].op = "get_if_changed"
         /\ cmd.log[k + 1].outcome.stdout = cmd.log[k].before
         /\ cmd.log[k + 1].result.kind = "None"

\* the call recorded at k ran the command and read valid UTF-8 from it
ran_ok(k) ==
    /\ cmd.log[k].spawned = 1
    /\ cmd.log[k].outcome.io = "Ok"
    /\ from_utf8(cmd.log[k].outcome.stdout)

\* the output of the latest run before call k that succeeded, the empty
\* string when there was none: what the source has seen last
RECURSIVE last_seen(_)
last_seen(k) ==
    IF k = 1 THEN <<>>
    ELSE IF ran_ok(k - 1) THEN cmd.log[k - 1].outcome.stdout
    ELSE last_seen(k - 1)

\* the calls that poll for a change, and the results that report one
PollOps == {"get_if_changed", "get_content"}

Reported == {"SomeOk", "Running"}

Unreported == {"None", "empty"}

\* C31: over any sequence of polls, a get_if_changed whose command ran
\* returns Some(Ok(output)) exactly when the output differs from the output
\* the source recorded last, and then records it; it returns None when the
\* output is equal and leaves last_output unchanged; two consecutive polls
\* that see the same output never both report a change, and content that
\* get() returned is not reported as a change by the poll that follows.
C31_ChangeReportedOnce ==
    (cmd.pc \in {"polling", "content"}) =>
        \A k \in DOMAIN cmd.log :
            /\ cmd.log[k].before = last_seen(k)
            /\ (cmd.log[k].op \in PollOps /\ ran_ok(k)) =>
                 LET o == cmd.log[k].outcome.stdout
                 IN  /\ (cmd.log[k].result.kind \in Reported)
                            <=> (o # last_seen(k))
                     /\ (o # last_seen(k)) =>
                            /\ cmd.log[k].result.val = o
                            /\ cmd.log[k].after = o
                     /\ (o = last_seen(k)) =>
                            /\ cmd.log[k].result.kind \in Unreported
                            /\ cmd.log[k].after = cmd.log[k].before
                     /\ (/\ k < Len(cmd.log)
                         /\ cmd.log[k + 1].op \in PollOps
                         /\ ran_ok(k + 1)
                         /\ cmd.log[k + 1].outcome.stdout = o)
                           => cmd.log[k + 1].result.kind \in Unreported
            /\ (/\ cmd.log[k].op = "get"
                /\ cmd.log[k].result.kind = "Ok"
                /\ k < Len(cmd.log)
                /\ cmd.log[k + 1].op = "get_if_changed"
                /\ ran_ok(k + 1)
                /\ cmd.log[k + 1].outcome.stdout = cmd.log[k].result.val)
                  => cmd.log[k + 1].result.kind = "None"

\* get() obtained a non-empty output first, the poll after it saw the same
\* output and reported nothing, the next poll saw another output and
\* reported it, and the poll after that saw it again and reported nothing
C31_Witness ==
    /\ cmd.pc = "polling"
    /\ Len(cmd.log) = 4
    /\ cmd.log[1].op = "get" /\ cmd.log[1].result.kind = "Ok"
    /\ cmd.log[1].result.val # <<>>
    /\ cmd.log[2].op = "get_if_changed"
    /\ cmd.log[2].outcome.stdout = cmd.log[1].result.val
    /\ cmd.log[2].result.kind = "None"
    /\ cmd.log[3].op = "get_if_changed" /\ cmd.log[3].result.kind = "SomeOk"
    /\ cmd.log[4].op = "get_if_changed" /\ ran_ok(4)
    /\ cmd.log[4].outcome.stdout = cmd.log[3].outcome.stdout
    /\ cmd.log[4].result.kind = "None"

\* ---------------------------------------------------- mpd.rs: MpdFormatter
MaxFmtLen == 5

\* a format string is a sequence of symbols: the two braces, the colon, a
\* letter that is no placeholder name, and two names of placeholders, each
\* name standing for the run of letters that spells it
FmtBraces == {"{", "}"}

FmtNames == {"artist", "date"}

FmtSyms == FmtBraces \cup {":", "x"} \cup FmtNames

FmtStrings(n) == [1..n -> FmtSyms]

FmtInputs == UNION {FmtStrings(n) : n \in 0..MaxFmtLen}

\* Placeholder (mpd.rs 187-205)
PhString(s) == [ph |-> "String", s |-> s]

PhNamed(name) == [ph |-> name, s |-> <<>>]

\* parse_slice.find(['{', '}']): the index of the first brace, 0 for None
find_brace(s) ==
    IF \E k \in DOMAIN s : s[k] \in FmtBraces
    THEN CHOOSE k \in DOMAIN s :
             s[k] \in FmtBraces /\ \A j \in 1..(k - 1) : s[j] \notin FmtBraces
    ELSE 0

\* ph_spec.split_once(':')
split_once_colon(s) ==
    IF \E k \in DOMAIN s : s[k] = ":"
    THEN LET k == CHOOSE k \in DOMAIN s :
                     s[k] = ":" /\ \A j \in 1..(k - 1) : s[j] # ":"
         IN  [some |-> TRUE, left |-> SubSeq(s, 1, k - 1),
              right |-> SubSeq(s, k + 1, Len(s))]
    ELSE [some |-> FALSE, left |-> <<>>, right |-> <<>>]

\* mpd.rs 642-698: the placeholder a ph_spec stands for, for the names of
\* FmtNames
placeholder_of(ph_spec) ==
    LET sp == split_once_colon(ph_spec)
    IN  IF sp.some
        THEN IF sp.left = <<"date">>
             THEN [ok |-> TRUE, err |-> "none", ph |-> PhNamed("Date")]
             ELSE [ok |-> FALSE, err |-> "RedundantFormat", ph |-> PhNamed("none")]
        ELSE IF ph_spec = <<"artist">>
             THEN [ok |-> TRUE, err |-> "none", ph |-> PhNamed("Artist")]
        ELSE IF ph_spec = <<"date">>
             THEN [ok |-> TRUE, err |-> "none", ph |-> PhNamed("Date")]
        ELSE [ok |-> FALSE, err |-> "UnknownPlaceholder", ph |-> PhNamed("none")]

\* mpd.rs 701-704
push_raw(placeholders, raw) ==
    IF raw # <<>> THEN Append(placeholders, PhString(raw)) ELSE placeholders

\* the loop of from_str (mpd.rs 603-700) and what follows it
RECURSIVE from_str_loop(_, _, _)
from_str_loop(parse_slice, raw, placeholders) ==
    LET n == Len(parse_slice)
        left_par == find_brace(parse_slice)
        Unmatched == [ok |-> FALSE, err |-> "UnmatchedParenthesis",
                      placeholders |-> <<>>]
    IN  IF parse_slice = <<>>
            THEN [ok |-> TRUE, err |-> "none",
                  placeholders |-> push_raw(placeholders, raw)]
        ELSE IF left_par = 0
            THEN [ok |-> TRUE, err |-> "none",
                  placeholders |-> push_raw(placeholders, raw \o parse_slice)]
        ELSE IF parse_slice[left_par] = "}"
            THEN IF left_par + 1 <= n /\ parse_slice[left_par + 1] = "}"
                 THEN from_str_loop(SubSeq(parse_slice, left_par + 2, n),
                                    raw \o SubSeq(parse_slice, 1, left_par),
                                    placeholders)
                 ELSE Unmatched
        ELSE IF left_par + 1 <= n /\ parse_slice[left_par + 1] = "{"
            THEN from_str_loop(SubSeq(parse_slice, left_par + 2, n),
                               raw \o SubSeq(parse_slice, 1, left_par),
                               placeholders)
        ELSE LET pushed == push_raw(placeholders,
                               raw \o SubSeq(parse_slice, 1, left_par - 1))
                 rest == SubSeq(parse_slice, left_par + 1, n)
                 right_par == find_brace(rest)
                 p == placeholder_of(SubSeq(rest, 1, right_par - 1))
             IN  IF right_par = 0 THEN Unmatched
                 ELSE IF rest[right_par] = "{" THEN Unmatched
                 ELSE IF ~p.ok
                     THEN [ok |-> FALSE, err |-> p.err, placeholders |-> <<>>]
                 ELSE from_str_loop(SubSeq(rest, right_par + 1, Len(rest)),
                                    <<>>, Append(pushed, p.ph))

\* <MpdFormatter as FromStr>::from_str (mpd.rs 599-705)
from_str(s) == from_str_loop(s, <<>>, <<>>)

\* s.split_inclusive(['{', '}']): the parts of s, each ending with the brace
\* that closes it, the last one possibly without
RECURSIVE split_inclusive(_)
split_inclusive(s) ==
    LET i == find_brace(s)
    IN  IF s = <<>> THEN <<>>
        ELSE IF i = 0 THEN <<s>>
        ELSE <<SubSeq(s, 1, i)>> \o split_inclusive(SubSeq(s, i + 1, Len(s)))

\* a mutation of display_part: the closing brace of a part is not doubled
display_part_plain(part) == part

\* mpd.rs 560-564: a part, and its last character again when it is a brace
display_part(part) ==
    IF part[Len(part)] \in FmtBraces THEN Append(part, part[Len(part)])
    ELSE part

RECURSIVE display_parts(_)
display_parts(parts) ==
    IF parts = <<>> THEN <<>>
    ELSE display_part(Head(parts)) \o display_parts(Tail(parts))

\* mpd.rs 558-590: what one placeholder prints
display_placeholder(ph) ==
    IF ph.ph = "String" THEN display_parts(split_inclusive(ph.s))
    ELSE IF ph.ph = "Artist" THEN <<"{", "artist", "}">>
    ELSE <<"{", "date", "}">>

\* <MpdFormatter as Display>::fmt (mpd.rs 556-593)
RECURSIVE display(_)
display(placeholders) ==
    IF placeholders = <<>> THEN <<>>
    ELSE display_placeholder(Head(placeholders)) \o display(Tail(placeholders))

InitFmt ==
    /\ fmt \in [pc : {"start"}, input : FmtInputs, placeholders : {<<>>},
                err : {"none"}, displayed : {<<>>}]
    /\ args = [string |-> <<>>, w |-> 0, repeat |-> FALSE, escapes |-> <<>>]
    /\ text = NoText /\ it = NoIter /\ ret = NoRet /\ hist = NoHist
    /\ pc = "idle"
    /\ ti = Idle /\ cmd = Idle /\ cli = Idle /\ itf = Idle
    /\ nl = Idle /\ mpd = Idle

\* input.parse::<MpdFormatter>()
FromStr ==
    /\ fmt.pc = "start"
    /\ LET r == from_str(fmt.input)
       IN  fmt' = [fmt EXCEPT !.pc = IF r.ok THEN "parsed" ELSE "error",
                              !.placeholders = r.placeholders,
                              !.err = r.err]
    /\ UNCHANGED <<rt_vars, ti, cmd, cli, itf, nl, mpd>>

\* formatter.to_string()
DisplayFmt ==
    /\ fmt.pc = "parsed"
    /\ fmt' = [fmt EXCEPT !.pc = "displayed",
                          !.displayed = display(fmt.placeholders)]
    /\ UNCHANGED <<rt_vars, ti, cmd, cli, itf, nl, mpd>>

NextFmt == FromStr \/ DisplayFmt

SpecFmt == InitFmt /\ [][NextFmt]_vars

\* s is made only of literal text, doubled braces and bare placeholder names
\* in braces
RECURSIVE RoundTripDomain(_)
RoundTripDomain(s) ==
    \/ s = <<>>
    \/ /\ s # <<>>
       /\ Head(s) \notin FmtBraces
       /\ RoundTripDomain(Tail(s))
    \/ /\ Len(s) >= 2
       /\ s[1] \in FmtBraces
       /\ s[2] = s[1]
       /\ RoundTripDomain(SubSeq(s, 3, Len(s)))
    \/ /\ Len(s) >= 3
       /\ s[1] = "{"
       /\ s[2] \in FmtNames
       /\ s[3] = "}"
       /\ RoundTripDomain(SubSeq(s, 4, Len(s)))

NextNew == New

SpecNew == Init /\ [][NextNew]_vars

\* The transformed text with its substituted runs marked: "n" is a byte of
\* unreplaced text, "s" the first byte of a substituted run and "i" a later
\* byte of it.  A rule replaces the marks of the bytes it replaces.
RECURSIVE run_marks(_, _, _)
run_marks(mt, escapes, j) ==
    IF j > Len(escapes) THEN mt
    ELSE LET src == escapes[j][1]
             dest == escapes[j][2]
             matches == corrected_matches(mt.s, src, dest)
             mark == [i \in 1..Len(dest) |-> IF i = 1 THEN "s" ELSE "i"]
         IN  IF src = <<>> THEN run_marks(mt, escapes, j + 1)
             ELSE run_marks(
                     [s |-> replace_matches(mt.s, matches, 1, Len(src), dest),
                      mark |-> replace_matches(mt.mark, matches, 1, Len(src), mark)],
                     escapes, j + 1)

RunMarks ==
    run_marks([s |-> args.string,
               mark |-> [i \in 1..Len(args.string) |-> "n"]],
              args.escapes, 1).mark

\* the mark of the byte at offset o of the backing text, a sequence of
\* copies of the transformed text
mark_at(o) == RunMarks[(o % Len(RunMarks)) + 1]

RECURSIVE run_len(_, _)
\* the byte length of the substituted run that begins at offset o, as far
\* as the backing text of length n holds it
run_len(o, n) ==
    IF o + 1 < n /\ mark_at(o + 1) = "i" THEN 1 + run_len(o + 1, n) ELSE 1

\* the offsets at which a substituted run begins that the backing text
\* holds completely
RunStarts ==
    {o \in 0..(Len(text.s) - 1) :
        /\ mark_at(o) = "s"
        /\ (o + run_len(o, Len(text.s)) = Len(text.s)
             \/ mark_at(o + run_len(o, Len(text.s))) # "i")}

\* C21: after construction in repeating mode left_escape_bounds holds an
\* entry (o -> len) exactly for each substituted non-empty run at bytes
\* [o, o+len) of the backing text, in every copy and in the tail,
\* right_escape_bounds exactly the matching entries (o+len -> len), and the
\* recorded ranges do not overlap, also when a later rule shifts text that
\* lies before an earlier rule's runs.
C21_BoundaryMapsAreTheRuns ==
    (ValidArgs /\ text.ok /\ text.repeat /\ RunMarks # <<>>)
        => /\ DOMAIN text.left_escape_bounds = RunStarts
           /\ \A o \in RunStarts :
                 text.left_escape_bounds[o] = run_len(o, Len(text.s))
           /\ DOMAIN text.right_escape_bounds
                = {o + run_len(o, Len(text.s)) : o \in RunStarts}
           /\ \A o \in RunStarts :
                 text.right_escape_bounds[o + run_len(o, Len(text.s))]
                     = run_len(o, Len(text.s))
           /\ \A o1, o2 \in DOMAIN text.left_escape_bounds :
                 o1 < o2 => o1 + text.left_escape_bounds[o1] <= o2

RECURSIVE replace_all(_, _, _)
\* s with every non-overlapping occurrence of the non-empty pat, found from
\* the left, replaced by dest
replace_all(s, pat, dest) ==
    IF Len(s) < Len(pat) THEN s
    ELSE IF SubSeq(s, 1, Len(pat)) = pat
         THEN dest \o replace_all(SubSeq(s, Len(pat) + 1, Len(s)), pat, dest)
    ELSE <<Head(s)>> \o replace_all(Tail(s), pat, dest)

RECURSIVE fold_rules(_, _, _)
\* the rules from the j-th on applied to s one after the other
fold_rules(s, escapes, j) ==
    IF j > Len(escapes) THEN s
    ELSE fold_rules(replace_all(s, escapes[j][1], escapes[j][2]), escapes, j + 1)

\* C22: the transformed text new produces is the fold over the rules in
\* array order, each rule replacing every non-overlapping leftmost
\* occurrence of its pattern in the text the rules before it produced: it is
\* the whole text in fits mode and the first copy in repeating mode, for
\* replacements longer and shorter than the pattern.
C22_RulesAppliedInOrder ==
    (pc # "new" /\ text.ok /\ NoEmptyPattern)
        => LET folded == fold_rules(args.string, args.escapes, 1)
           IN  /\ Len(folded) <= Len(text.s)
               /\ SubSeq(text.s, 1, Len(folded)) = folded
               /\ ~text.repeat => text.s = folded

\* the second rule has replaced the "b" the first rule introduced as well
\* as the one of the content
C22_Witness ==
    /\ pc = "text"
    /\ args.string = <<"a", "b">>
    /\ args.escapes = << <<(<<"a">>), (<<"b">>)>>, <<(<<"b">>), (<<"x", "y">>)>> >>
    /\ text.ok
    /\ SubSeq(text.s, 1, 4) = <<"x", "y", "x", "y">>

\* off lies strictly inside a run recorded in left_escape_bounds
inside_recorded_run(t, off) ==
    \E o \in DOMAIN t.left_escape_bounds :
        o < off /\ off < o + t.left_escape_bounds[o]

cursor_ok(t, off) ==
    /\ off <= Len(t.s)
    /\ is_char_boundary(t.s, off)
    /\ ~inside_recorded_run(t, off)

\* C23: in every state reached from iter() or iter_at(i) by any number of
\* next() calls, or any number of next_back() calls, both cursor offsets are
\* at most the length of the backing text, lie on a character boundary and
\* are not strictly inside a recorded atomic run.
C23_CursorOffsetInvariant ==
    (ValidArgs /\ Units # <<>> /\ pc = "iter"
        /\ hist.dir \in {"none", "next", "next_back"})
        => /\ cursor_ok(text, it.left_off.offset)
           /\ cursor_ok(text, it.right_off.offset)

\* C24: in repeating mode, between calls, the left and the right cursor of
\* a RunIter are exactly `width` logical units apart, so range() and get()
\* denote a window of `width` units: in the initial state, after every
\* next() or next_back(), and after the last window before a wrap.
C24_CursorsAreWidthApart ==
    (ValidArgs /\ Units # <<>> /\ text.repeat /\ pc = "iter"
        /\ hist.dir \in {"none", "next", "next_back"})
        => recorded_units(text, it.left_off.offset, it.right_off.offset)
               = text.w

\* C25: for an iterator `it` from iter() advanced by any number of next()
\* calls, iter_at(it.range().start) over the same text yields with next()
\* the windows that `it` itself yields from that point on, also when `it`
\* stands right before its wrap.
C25_ResumeThroughRange ==
    (ValidArgs /\ Units # <<>> /\ pc = "iter" /\ hist.origin = "iter"
        /\ hist.dir \in {"none", "next"})
        => LET resumed == iter_at(text, range(it).start)
           IN  /\ ~resumed.panic
               /\ \A m \in 1..(Len(text.s) + 1) :
                     nth_window(text, resumed.it, m, TRUE)
                         = nth_window(text, it, m, TRUE)

\* the starts of the recorded runs [o, o+len) that hold the byte at idx
runs_holding(t, idx) ==
    {o \in DOMAIN t.left_escape_bounds :
        o <= idx /\ idx < o + t.left_escape_bounds[o]}

RECURSIVE greatest_boundary(_, _)
\* the greatest character boundary of s that is at most idx
greatest_boundary(s, idx) ==
    IF idx = 0 \/ idx >= Len(s) THEN (IF idx >= Len(s) THEN Len(s) ELSE 0)
    ELSE IF ~IsCont(s[idx + 1]) THEN idx
    ELSE greatest_boundary(s, idx - 1)

RECURSIVE units_after(_, _)
\* the number of logical units of t.s from offset a to the end, a recorded
\* run being one unit and any other character one unit
units_after(t, a) ==
    IF a >= Len(t.s) THEN 0
    ELSE 1 + units_after(t, a + (IF a \in DOMAIN t.left_escape_bounds
                                  THEN t.left_escape_bounds[a]
                                  ELSE len_utf8(t.s, a)))

\* the offset iter_at(idx) has to start at
safe_start(t, idx) ==
    IF runs_holding(t, idx) # {}
    THEN CHOOSE o \in runs_holding(t, idx) : TRUE
    ELSE greatest_boundary(t.s, idx)

\* C26: in repeating mode iter_at(idx) starts at the start of the recorded run that holds
\* byte idx, else at the greatest character boundary <= idx, and the first
\* window of next(), and of next_back(), starts at that offset; when fewer
\* than `width` logical units remain after that offset the iterator is the
\* one iter() returns.
C26_IterAtRoundsDown ==
    (ValidArgs /\ Units # <<>> /\ text.ok /\ text.repeat
        /\ hist.origin = "iter_at" /\ hist.k <= 1 /\ hist.dir # "mixed")
        => LET start == safe_start(text, hist.idx)
           IN  /\ pc # "panicked"
               /\ IF units_after(text, start) < text.w
                  THEN hist.k = 0 => it = iter(text).it
                  ELSE /\ hist.k = 0 => it.left_off.offset = start
                       /\ hist.k = 1 => (ret.item = "Some" /\ ret.left = start)

\* C27: with empty content, or content the rules reduce to no logical unit,
\* repeat = false and width >= 1, new returns a fits-mode text, and every
\* call on its iterators returns the empty transformed text.
C27_EmptyContentIsAccepted ==
    (pc # "new" /\ ~args.repeat /\ args.w >= 1 /\ NoEmptyPattern
        /\ Units = <<>>)
        => /\ text.ok
           /\ ~text.repeat
           /\ text.s = <<>>
           /\ pc # "panicked"
           /\ hist.k >= 1 => (ret.item = "Some" /\ Window = <<>>)

\* the bytes [o, o+n) of the backing text are unreplaced content that
\* spells dest
natural_stretch(o, dest) ==
    /\ dest # <<>>
    /\ o + Len(dest) <= Len(text.s)
    /\ SubSeq(text.s, o + 1, o + Len(dest)) = dest
    /\ \A b \in o..(o + Len(dest) - 1) : mark_at(b) = "n"

\* C28: a stretch of the original content that equals a rule's replacement
\* string but was not produced by a substitution is not recorded as an
\* atomic run: no boundary entry begins or ends one.
C28_OnlySubstitutedTextIsAtomic ==
    (ValidArgs /\ text.ok /\ text.repeat /\ RunMarks # <<>>)
        => \A j \in DOMAIN args.escapes :
             \A o \in 0..Len(text.s) :
                natural_stretch(o, args.escapes[j][2])
                    => /\ o \notin DOMAIN text.left_escape_bounds
                       /\ (o + Len(args.escapes[j][2]))
                            \notin DOMAIN text.right_escape_bounds

\* some rule's replacement holds a character longer than one byte
MultiByteDest ==
    \E j \in DOMAIN args.escapes :
        chars_count(args.escapes[j][2]) < Len(args.escapes[j][2])

\* the q and r of line 20, where the arithmetic does not overflow
QR == count_qr(args.string, args.w, args.repeat, args.escapes, TRUE)

RECURSIVE pow2(_)
pow2(n) == IF n <= 0 THEN 1 ELSE 2 * pow2(n - 1)

\* what new appended to the whole copies of lines 49-51
AppendedTail ==
    SubSeq(text.s, Len(Transformed) * pow2(QR.q) + 1, Len(text.s))

\* C29: when a replacement holds characters longer than one byte, the
\* partial-cycle tail still advances over a run by its byte length: the tail
\* is exactly the first r logical units of the transformed text, it ends on
\* a run-safe boundary, and the entries inserted for a run of the tail are
\* those of the run of the first copy moved by the length of the copies.
C29_TailStepsOverMultiByteRuns ==
    (ValidArgs /\ Units # <<>> /\ MultiByteDest /\ QR.fail = ""
        /\ text.ok /\ text.repeat)
        => LET base == Len(Transformed) * pow2(QR.q)
           IN  /\ AppendedTail = cycle(Units, 0, QR.r)
               /\ ~inside_recorded_run(text, Len(text.s))
               /\ \A o \in DOMAIN text.left_escape_bounds :
                     o >= base =>
                        /\ (o - base) \in DOMAIN text.left_escape_bounds
                        /\ text.left_escape_bounds[o - base]
                             = text.left_escape_bounds[o]
                        /\ o + text.left_escape_bounds[o] <= Len(text.s)

\* ------------------------------------------------ utils.rs: replace_newline
\* longest text given to replace_newline, in characters
MaxNlLen == 4

\* "lf" is the byte of '\n', "cr" the byte of '\r', "00" the byte of '\0'
NlChars == {<<"a">>, <<"lf">>, <<"cr">>, <<"c3", "a9">>}

RECURSIVE NlStrings(_)
NlStrings(n) ==
    IF n = 0 THEN {<<>>} ELSE {c \o s : c \in NlChars, s \in NlStrings(n - 1)}

NlTexts == UNION {NlStrings(n) : n \in 0..MaxNlLen}

NlReplacements ==
    {<<>>, <<"x">>, <<"x", "y">>, <<"lf">>, <<"cr", "lf">>, <<"c3", "a9">>}

RECURSIVE retain_not(_, _)
\* text.retain(|c| c != b) for a one-byte character b
retain_not(s, b) ==
    IF s = <<>> THEN <<>>
    ELSE (IF Head(s) = b THEN <<>> ELSE <<Head(s)>>) \o retain_not(Tail(s), b)

\* utils.rs 17: text.chars().filter(|&c| c == '\n').count()
newline_count(s) == Cardinality({i \in DOMAIN s : s[i] = "lf"})

\* a mutation of additional_len: one byte too many for each newline
additional_len_whole(replacement, count) == Len(replacement) * count

\* utils.rs 18
additional_len(replacement, count) == (Len(replacement) - 1) * count

\* utils.rs 20: repeat('\0').take(n)
zeros(n) == [i \in 1..n |-> "00"]

\* buffer[dest..dest + n].copy_from_slice(bytes), dest counted from 0
copy_from_slice(buffer, dest, bytes) ==
    [i \in 1..Len(buffer) |->
        IF i > dest /\ i <= dest + Len(bytes) THEN bytes[i - dest] ELSE buffer[i]]

InitNl ==
    /\ nl \in [pc : {"start"}, text : NlTexts, replacement : NlReplacements,
               buffer : {<<>>}, src : {0}, dest : {0}, clobbered : {FALSE}]
    /\ args = [string |-> <<>>, w |-> 0, repeat |-> FALSE, escapes |-> <<>>]
    /\ text = NoText /\ it = NoIter /\ ret = NoRet /\ hist = NoHist
    /\ pc = "idle"
    /\ ti = Idle /\ cmd = Idle /\ fmt = Idle /\ cli = Idle /\ itf = Idle
    /\ mpd = Idle

\* replace_newline up to the loop (utils.rs 12-23); with an empty
\* replacement it returns at line 15
ReplaceNewlineEnter ==
    /\ nl.pc = "start"
    /\ LET retained == retain_not(nl.text, "cr")
           add == additional_len(nl.replacement, newline_count(retained))
           extended == retained \o zeros(add)
       IN  IF nl.replacement = <<>>
           THEN nl' = [nl EXCEPT !.pc = "done",
                                 !.buffer = retain_not(retained, "lf")]
           ELSE nl' = [nl EXCEPT !.pc = "loop",
                                 !.buffer = extended,
                                 !.dest = Len(extended),
                                 !.src = Len(extended) - add]
    /\ UNCHANGED <<rt_vars, ti, cmd, fmt, cli, itf, mpd>>

\* one pass of the loop (utils.rs 26-36).  A subtraction below zero or an
\* index outside the buffer panics; clobbered records a write to a byte
\* below src, which the loop has not read yet.
ReplaceNewlineLoop ==
    /\ nl.pc = "loop"
    /\ nl.src >= 1
    /\ LET src == nl.src - 1
           byte == nl.buffer[src + 1]
           n == IF byte = "lf" THEN Len(nl.replacement) ELSE 1
           bytes == IF byte = "lf" THEN nl.replacement ELSE <<byte>>
           dest == nl.dest - n
       IN  IF dest < 0 \/ dest + n > Len(nl.buffer)
           THEN nl' = [nl EXCEPT !.pc = "panicked", !.src = src]
           ELSE nl' = [nl EXCEPT !.src = src,
                                 !.dest = dest,
                                 !.buffer = copy_from_slice(nl.buffer, dest, bytes),
                                 !.clobbered = nl.clobbered \/ dest < src]
    /\ UNCHANGED <<rt_vars, ti, cmd, fmt, cli, itf, mpd>>

\* the loop ends (utils.rs 26) and replace_newline returns
ReplaceNewlineReturn ==
    /\ nl.pc = "loop"
    /\ nl.src = 0
    /\ nl' = [nl EXCEPT !.pc = "done"]
    /\ UNCHANGED <<rt_vars, ti, cmd, fmt, cli, itf, mpd>>

NextNl == ReplaceNewlineEnter \/ ReplaceNewlineLoop \/ ReplaceNewlineReturn

SpecNl == InitNl /\ [][NextNl]_vars

RECURSIVE newlines_replaced(_, _)
\* s without its '\r', each '\n' replaced by r, every other byte kept
newlines_replaced(s, r) ==
    IF s = <<>> THEN <<>>
    ELSE (IF Head(s) = "cr" THEN <<>>
          ELSE IF Head(s) = "lf" THEN r
          ELSE <<Head(s)>>) \o newlines_replaced(Tail(s), r)

\* C30: replace_newline(text, r) leaves the text equal to the original with
\* every '\r' removed and every '\n' replaced by r, the other bytes in
\* their order; its length is the length without '\r' plus, for each
\* newline, len(r) - 1; and the backward copy never panics and never writes
\* to a byte it has not read yet.
C30_NewlinesReplaced ==
    /\ nl.pc \in {"start", "loop", "done", "idle"}
    /\ nl.pc = "loop" => ~nl.clobbered
    /\ nl.pc = "done" =>
          /\ ~nl.clobbered
          /\ nl.buffer = newlines_replaced(nl.text, nl.replacement)
          /\ Len(nl.buffer)
               = Len(retain_not(nl.text, "cr"))
                 + newline_count(nl.text) * (Len(nl.replacement) - 1)

\* a text with '\r', two newlines and a two-byte character, with a
\* replacement of two bytes, has been rewritten in place
C30_Witness ==
    /\ nl.pc = "done"
    /\ nl.text = <<"lf", "cr", "c3", "a9", "lf">>
    /\ nl.replacement = <<"x", "y">>
    /\ nl.buffer = <<"x", "y", "c3", "a9", "x", "y">>

\* ------------------------------------------- mpd.rs: MpdSource and pollers
MaxNew == 2

MaxPublish == 1

\* the socket addresses given on the command line
MpdAddrs == {"addr1", "addr2"}

\* what currentsong() and status() can answer: the song and the play state
\* are compared with nothing, they only tell one published state from
\* another
MpdSongs == {"song1"}

MpdPlayStates == {"Play", "Pause"}

\* Instant::now(): the program compares Instants for equality only, and no
\* two reads of the clock are taken to be equal, so a reading is named by
\* the thread that took it and the number of readings that thread had
\* taken before
Instant(thread, n) == <<thread, n>>

NoInstant == <<"never", 0>>

\* struct MpdState (mpd.rs 370-374); status stands for status.state
MpdState(song, status, update_time) ==
    [song |-> song, status |-> status, update_time |-> update_time]

\* the state a registry entry starts with (mpd.rs 407-411)
initial_state(now) == MpdState("None", "Stop", now)

NoState == MpdState("None", "Stop", NoInstant)

\* a poller thread that was never spawned
NoPoller == [pc |-> "none", song |-> "None", status |-> "Stop",
             update_time |-> NoInstant, published |-> 0]

\* what half a copy of an MpdState into the shared memory may have written
\* already: the fields from the first on, or from the last on
PartialCopies == {{"song"}, {"status", "update_time"}}

copy_fields(old, fresh, fields) ==
    [song |-> IF "song" \in fields THEN fresh.song ELSE old.song,
     status |-> IF "status" \in fields THEN fresh.status ELSE old.status,
     update_time |-> IF "update_time" \in fields THEN fresh.update_time
                     ELSE old.update_time]

\* the MpdSource that new returns (mpd.rs 440-446), with the bookkeeping of
\* its calls: the time of the state reported last, the statuses of the
\* states reported again right after they were reported, the last outcome
MpdSource(addr, state, now, elapsed) ==
    [addr |-> addr, state |-> state, last_state_update_time |-> now,
     elapsed |-> elapsed, reported |-> NoInstant, again |-> {},
     ret |-> [kind |-> "new", why |-> "new", latest |-> TRUE]]

\* a mutation of MpdSource_new: an address that has an entry already gets
\* an entry, a connection and a poller of its own again
MpdSource_new_always_fresh(m, addr, connect_ok, elapsed) ==
    LET t0 == Instant("main", m.now)
        arc == m.next_arc + 1
    IN  [m EXCEPT
            !.calls = @ + 1, !.next_arc = arc, !.now = m.now + 2,
            !.registry[addr] = arc,
            !.arcs = @ @@ (arc :> initial_state(t0)),
            !.latest = @ @@ (arc :> initial_state(t0)),
            !.locked = @ @@ (arc :> FALSE),
            !.connects[addr] = @ + 1,
            !.spawns[addr] = @ + 1,
            !.pollers[addr] = [NoPoller EXCEPT !.pc = "fetch"],
            !.sources = Append(@, MpdSource(addr, arc,
                                   Instant("main", m.now + 1), elapsed))]

\* MpdSource::new (mpd.rs 400-447), run under the ADDRS lock from its first
\* line to its return. Every call builds a fresh Arc<Mutex<MpdState>> as the
\* argument of try_insert; an occupied entry hands back the Arc it holds and
\* the fresh one is dropped; a vacant entry takes the fresh one before the
\* connection is tried, and `?` returns the connection error with the entry
\* in place. Instant::now() is read for the fresh state and again for the
\* source's last_state_update_time; now counts the readings of this thread.
MpdSource_new(m, addr, connect_ok, elapsed) ==
    LET t0 == Instant("main", m.now)
        arc == m.next_arc + 1
        occupied == m.registry[addr] # 0
    IN  IF occupied
        THEN [m EXCEPT
                !.calls = @ + 1, !.next_arc = arc, !.now = m.now + 2,
                !.sources = Append(@, MpdSource(addr, m.registry[addr],
                                       Instant("main", m.now + 1), elapsed))]
        ELSE IF ~connect_ok
        THEN [m EXCEPT
                !.calls = @ + 1, !.next_arc = arc, !.now = m.now + 1,
                !.registry[addr] = arc,
                !.arcs = @ @@ (arc :> initial_state(t0)),
                !.latest = @ @@ (arc :> initial_state(t0)),
                !.locked = @ @@ (arc :> FALSE),
                !.connects[addr] = @ + 1,
                !.failed[addr] = TRUE]
        ELSE [m EXCEPT
                !.calls = @ + 1, !.next_arc = arc, !.now = m.now + 2,
                !.registry[addr] = arc,
                !.arcs = @ @@ (arc :> initial_state(t0)),
                !.latest = @ @@ (arc :> initial_state(t0)),
                !.locked = @ @@ (arc :> FALSE),
                !.connects[addr] = @ + 1,
                !.spawns[addr] = @ + 1,
                !.pollers[addr] = [NoPoller EXCEPT !.pc = "fetch"],
                !.sources = Append(@, MpdSource(addr, arc,
                                       Instant("main", m.now + 1), elapsed))]

\* the bookkeeping of a call on a source; latest tells whether the state
\* the call formatted was the one published last
record_call(src, kind, why, shared, latest) ==
    [src EXCEPT
        !.reported = IF kind = "Some" THEN shared.update_time ELSE @,
        !.again = IF kind = "Some" /\ shared.update_time = src.reported
                  THEN @ \cup {shared.status} ELSE @,
        !.ret = [kind |-> kind, why |-> why,
                 latest |-> IF kind = "Some" THEN shared = latest ELSE TRUE]]

\* a mutation of MpdSource_get_if_changed: the source does not wait for the
\* lock and reads the shared state as it is
MpdSource_get_if_changed_unlocked(src, shared, is_locked, latest) ==
    IF /\ shared.update_time = src.last_state_update_time
       /\ ~(src.elapsed /\ shared.status = "Play")
    THEN record_call(src, "None", "Unchanged", shared, latest)
    ELSE [record_call(src, "Some", "Changed", shared, latest)
            EXCEPT !.last_state_update_time = shared.update_time]

\* a mutation of MpdSource_get_if_changed: the time of the state reported
\* is not remembered
MpdSource_get_if_changed_forgetful(src, shared, is_locked, latest) ==
    IF is_locked
    THEN record_call(src, "None", "WouldBlock", shared, latest)
    ELSE IF /\ shared.update_time = src.last_state_update_time
            /\ ~(src.elapsed /\ shared.status = "Play")
    THEN record_call(src, "None", "Unchanged", shared, latest)
    ELSE record_call(src, "Some", "Changed", shared, latest)

\* MpdSource::get_if_changed (mpd.rs 467-488): try_lock that would block
\* returns None; an update_time equal to the one remembered returns None
\* unless the format has an elapsedTime placeholder and the player plays;
\* otherwise the time is remembered and the state read under the lock is
\* formatted. The Poisoned arm needs a thread that panicked with the lock
\* held: the poller holds it for one assignment only (lines 422, 435).
MpdSource_get_if_changed(src, shared, is_locked, latest) ==
    IF is_locked
    THEN record_call(src, "None", "WouldBlock", shared, latest)
    ELSE IF /\ shared.update_time = src.last_state_update_time
            /\ ~(src.elapsed /\ shared.status = "Play")
    THEN record_call(src, "None", "Unchanged", shared, latest)
    ELSE [record_call(src, "Some", "Changed", shared, latest)
            EXCEPT !.last_state_update_time = shared.update_time]

\* the program before any MPD source is made, with the addresses its
\* command line names: ADDRS is empty (mpd.rs 78). arcs is the memory of
\* the Arc<Mutex<MpdState>> values alive, locked their mutexes, latest the
\* state published last through each; published counts the states all the
\* pollers have published
mpd_start(addrs) ==
    [pc |-> "run", addrs |-> addrs, now |-> 0, calls |-> 0, next_arc |-> 0,
     published |-> 0,
     registry |-> [a \in MpdAddrs |-> 0],
     arcs |-> <<>>, latest |-> <<>>, locked |-> <<>>,
     pollers |-> [a \in MpdAddrs |-> NoPoller],
     connects |-> [a \in MpdAddrs |-> 0],
     spawns |-> [a \in MpdAddrs |-> 0],
     failed |-> [a \in MpdAddrs |-> FALSE],
     sources |-> <<>>]

InitMpd ==
    /\ mpd = mpd_start(MpdAddrs)
    /\ args = [string |-> <<>>, w |-> 0, repeat |-> FALSE, escapes |-> <<>>]
    /\ text = NoText /\ it = NoIter /\ ret = NoRet /\ hist = NoHist
    /\ pc = "idle"
    /\ ti = Idle /\ cmd = Idle /\ fmt = Idle /\ cli = Idle /\ itf = Idle
    /\ nl = Idle

MpdNew ==
    /\ mpd.pc = "run"
    /\ mpd.calls < MaxNew
    /\ \E addr \in mpd.addrs, connect_ok \in BOOLEAN, elapsed \in BOOLEAN :
         mpd' = MpdSource_new(mpd, addr, connect_ok, elapsed)
    /\ UNCHANGED <<rt_vars, ti, cmd, fmt, cli, itf, nl>>

\* a call of get_if_changed on the i-th source
MpdGetIfChangedOf(i) ==
    /\ mpd.pc = "run"
    /\ i \in DOMAIN mpd.sources
    /\ LET src == mpd.sources[i]
       IN  mpd' = [mpd EXCEPT !.sources[i] =
                      MpdSource_get_if_changed(src, mpd.arcs[src.state],
                          mpd.locked[src.state], mpd.latest[src.state])]
    /\ UNCHANGED <<rt_vars, ti, cmd, fmt, cli, itf, nl>>

MpdGetIfChanged == \E i \in 1..MaxNew : MpdGetIfChangedOf(i)

\* the poller thread (mpd.rs 418-436): client.wait(..) returns, but for the
\* first round, then client.currentsong(), client.status() and
\* Instant::now(), steps that touch nothing the sources share
PollerFetch ==
    /\ mpd.pc = "run"
    /\ mpd.published < MaxPublish
    /\ \E a \in MpdAddrs, song \in MpdSongs, status \in MpdPlayStates :
         /\ mpd.pollers[a].pc = "fetch"
         /\ mpd' = [mpd EXCEPT
                       !.published = @ + 1,
                       !.pollers[a].song = song,
                       !.pollers[a].status = status,
                       !.pollers[a].update_time =
                           Instant(a, mpd.pollers[a].published),
                       !.pollers[a].pc = "lock"]
    /\ UNCHANGED <<rt_vars, ti, cmd, fmt, cli, itf, nl>>

\* state.lock().unwrap() and the first half of the assignment through the
\* guard; only the poller and the calls of the sources take this lock, and
\* a call of a source lets it go before it returns
PollerLock ==
    /\ mpd.pc = "run"
    /\ \E a \in MpdAddrs, fields \in PartialCopies :
         LET p == mpd.pollers[a]
             arc == mpd.registry[a]
         IN  /\ p.pc = "lock"
             /\ ~mpd.locked[arc]
             /\ mpd' = [mpd EXCEPT
                          !.locked[arc] = TRUE,
                          !.arcs[arc] = copy_fields(@,
                              MpdState(p.song, p.status, p.update_time),
                              fields),
                          !.pollers[a].pc = "unlock"]
    /\ UNCHANGED <<rt_vars, ti, cmd, fmt, cli, itf, nl>>

\* the assignment done and the guard dropped at the end of the statement
PollerUnlock ==
    /\ mpd.pc = "run"
    /\ \E a \in MpdAddrs :
         LET p == mpd.pollers[a]
             arc == mpd.registry[a]
             new_state == MpdState(p.song, p.status, p.update_time)
         IN  /\ p.pc = "unlock"
             /\ mpd' = [mpd EXCEPT
                          !.arcs[arc] = new_state,
                          !.latest[arc] = new_state,
                          !.locked[arc] = FALSE,
                          !.pollers[a] =
                              [NoPoller EXCEPT !.pc = "fetch",
                                               !.published = p.published + 1]]
    /\ UNCHANGED <<rt_vars, ti, cmd, fmt, cli, itf, nl>>

\* expect("MPD connection error") on a request that failed: the thread
\* panics, with the lock not held
PollerPanic ==
    /\ mpd.pc = "run"
    /\ \E a \in MpdAddrs :
         /\ mpd.pollers[a].pc = "fetch"
         /\ mpd' = [mpd EXCEPT !.pollers[a].pc = "dead"]
    /\ UNCHANGED <<rt_vars, ti, cmd, fmt, cli, itf, nl>>

NextMpd ==
    \/ MpdNew
    \/ MpdGetIfChanged
    \/ PollerFetch
    \/ PollerLock
    \/ PollerUnlock
    \/ PollerPanic

SpecMpd == InitMpd /\ [][NextMpd]_vars

\* the program run with one address on its command line
InitMpdOne ==
    /\ mpd = mpd_start({"addr1"})
    /\ args = [string |-> <<>>, w |-> 0, repeat |-> FALSE, escapes |-> <<>>]
    /\ text = NoText /\ it = NoIter /\ ret = NoRet /\ hist = NoHist
    /\ pc = "idle"
    /\ ti = Idle /\ cmd = Idle /\ fmt = Idle /\ cli = Idle /\ itf = Idle
    /\ nl = Idle

\* the scheduler runs a poller thread that can take the lock or finish its
\* assignment, so the lock is let go (mpd.rs 422, 434: the guard lives for
\* one statement), and the caller of a source keeps polling it
MpdFairness ==
    /\ WF_vars(PollerLock)
    /\ WF_vars(PollerUnlock)
    /\ \A i \in 1..MaxNew : WF_vars(MpdGetIfChangedOf(i))

SpecMpdFair == InitMpdOne /\ [][NextMpd]_vars /\ MpdFairness

\* the addresses that have a registry entry
registered == {a \in MpdAddrs : mpd.registry[a] # 0}

\* C32: for any sequence of MpdSource::new calls there is at most one poller
\* thread and one shared MpdState per socket address; every MpdSource made
\* for an address holds that address's shared state, and a second creation
\* for an address neither connects to the server again nor spawns a thread.
C32_OnePollerPerAddress ==
    (mpd.pc = "run") =>
        /\ \A a \in MpdAddrs :
              /\ mpd.spawns[a] <= 1
              /\ mpd.connects[a] <= 1
              /\ (mpd.pollers[a].pc # "none") <=> (mpd.spawns[a] = 1)
        /\ \A a, b \in registered :
              (mpd.registry[a] = mpd.registry[b]) => (a = b)
        /\ DOMAIN mpd.arcs = {mpd.registry[a] : a \in registered}
        /\ \A i \in DOMAIN mpd.sources :
              /\ mpd.sources[i].addr \in registered
              /\ mpd.sources[i].state = mpd.registry[mpd.sources[i].addr]

\* two sources were made for one address and a third call made one for
\* another address, or two were made for one address whose poller has
\* published: one connection and one thread served the shared address
C32_Witness ==
    /\ mpd.pc = "run"
    /\ \E i, j \in DOMAIN mpd.sources :
         /\ i < j
         /\ mpd.sources[i].addr = mpd.sources[j].addr
         /\ mpd.sources[i].state = mpd.sources[j].state
         /\ mpd.connects[mpd.sources[i].addr] = 1
         /\ mpd.spawns[mpd.sources[i].addr] = 1
         /\ mpd.pollers[mpd.sources[i].addr].published = 1

\* C33: when MpdSource::new fails to connect to an address, no registry
\* entry remains for that address, so no source is ever bound to a shared
\* state that no poller thread was started for.
C33_FailedConnectLeavesNoEntry ==
    (mpd.pc = "run") =>
        /\ \A a \in MpdAddrs :
              (mpd.failed[a] /\ mpd.spawns[a] = 0) => (mpd.registry[a] = 0)
        /\ \A i \in DOMAIN mpd.sources :
              mpd.spawns[mpd.sources[i].addr] >= 1

\* the call of get_if_changed on src, could it take the lock now
polled_now(src) ==
    MpdSource_get_if_changed(src, mpd.arcs[src.state], FALSE,
                             mpd.latest[src.state])

\* C34: a state is reported once per source: after get_if_changed returned
\* Some for a state, the calls that follow on that source return None until
\* a newer state is published, unless the format has an elapsedTime
\* placeholder and the player plays; what a source remembers changes by its
\* own reports only, so a state another source has reported is still
\* reported to this one.
C34_ReportedOncePerSource ==
    (mpd.pc = "run") =>
        \A i \in DOMAIN mpd.sources :
            LET src == mpd.sources[i]
                shared == mpd.arcs[src.state]
            IN  /\ \A status \in src.again :
                       src.elapsed /\ status = "Play"
                /\ \/ src.last_state_update_time[1] = "main"
                   \/ src.last_state_update_time = src.reported
                /\ (src.ret.kind = "Some") =>
                       src.last_state_update_time = src.reported
                /\ ~mpd.locked[src.state] =>
                       ((polled_now(src).ret.kind = "Some")
                          <=> \/ shared.update_time # src.reported
                              \/ src.elapsed /\ shared.status = "Play")

\* two sources share an address whose poller has published a state; both
\* have reported that state, and the first, whose format has no elapsedTime
\* placeholder, was polled again and returned None
C34_Witness ==
    /\ mpd.pc = "run"
    /\ \E i, j \in DOMAIN mpd.sources :
         /\ i < j
         /\ mpd.sources[i].state = mpd.sources[j].state
         /\ mpd.arcs[mpd.sources[i].state].update_time[1] # "main"
         /\ ~mpd.locked[mpd.sources[i].state]
         /\ mpd.sources[i].reported
              = mpd.arcs[mpd.sources[i].state].update_time
         /\ mpd.sources[j].reported = mpd.sources[i].reported
         /\ ~mpd.sources[i].elapsed
         /\ mpd.sources[i].ret.why = "Unchanged"
         /\ mpd.sources[j].ret.kind = "Some"

\* what a reader can rely on: a state that was formatted was the one
\* published last, and a memory that is not locked holds a published state
never_torn ==
    (mpd.pc = "run") =>
        /\ \A i \in DOMAIN mpd.sources :
              (mpd.sources[i].ret.kind = "Some") => mpd.sources[i].ret.latest
        /\ \A arc \in DOMAIN mpd.arcs :
              ~mpd.locked[arc] => (mpd.arcs[arc] = mpd.latest[arc])

\* a call that found the lock taken has left the source as it was
blocked_call_changes_nothing ==
    \A i \in DOMAIN mpd.sources :
        (/\ mpd'.sources[i].ret.why = "WouldBlock"
         /\ mpd'.sources[i] # mpd.sources[i])
            => /\ mpd.locked[mpd.sources[i].state]
               /\ mpd'.sources[i].last_state_update_time
                    = mpd.sources[i].last_state_update_time
               /\ mpd'.sources[i].reported = mpd.sources[i].reported

\* a source that was told None because the lock was taken is told Some
\* later
blocked_then_reported(i) ==
    (i \in DOMAIN mpd.sources /\ mpd.sources[i].ret.why = "WouldBlock")
        ~> (i \in DOMAIN mpd.sources /\ mpd.sources[i].ret.kind = "Some")

\* C35: no update is lost to lock contention: a get_if_changed that finds
\* the shared state locked by the poller returns None and leaves
\* last_state_update_time as it was, and when the source keeps polling and
\* the poller lets the lock go, a later call returns Some formatted from the
\* state published last; and no reader sees the song of one update with the
\* status or update_time of another.
C35_NoUpdateLostToContention ==
    /\ []never_torn
    /\ [][blocked_call_changes_nothing]_vars
    /\ \A i \in 1..MaxNew : blocked_then_reported(i)

\* a source that had reported the first state was polled while the poller
\* held the lock to publish the next one, and was told None
C35_Witness ==
    /\ mpd.pc = "run"
    /\ \E i \in DOMAIN mpd.sources :
         /\ mpd.sources[i].ret.why = "WouldBlock"
         /\ mpd.locked[mpd.sources[i].state]
         /\ mpd.sources[i].reported # NoInstant
         /\ mpd.sources[i].last_state_update_time = mpd.sources[i].reported
         /\ mpd.pollers[mpd.sources[i].addr].pc = "unlock"

====
